---- MODULE Spec2Model ----
(***************************************************************************)
(* Client network synchronisation layer of CutThePower.                    *)
(*                                                                         *)
(* The module models the client update system                              *)
(* (src/src/Network/ClientUpdateSystem.cpp): the lookup tables, the world  *)
(* arrays the handlers write, and client_update_system reading one batch   *)
(* of packets per game tick and dispatching each packet by type.           *)
(*                                                                         *)
(* Out-of-bounds accesses of the C code are undefined behaviour.  They are *)
(* modelled as a choice between the process crashing at the access and the *)
(* access missing the modelled arrays (a read yields an arbitrary value of *)
(* the field's domain, a write changes none of the modelled fields).       *)
(***************************************************************************)
EXTENDS Integers, Sequences, FiniteSets, TLC

(***************************************************************************)
(* Bounds of the model.  MAX_PLAYERS, OBJECTIVES_PER_FLOOR and the number  *)
(* of floors are set in headers that are not part of the sources at hand;  *)
(* the model scales them down.                                             *)
(***************************************************************************)
MAX_PLAYERS == 2
OBJECTIVES_PER_FLOOR == 2
NumFloors == 2
MaxBatch == 2
MaxPackets == 3
MaxChatLines == 1
\* loop iterations of the two network threads explored, and those of them
\* that are iterations of the send thread
MaxNetSteps == 3
MaxSends == 1
MaxLossSteps == 1
MaxThreadsRead == 1
MaxErrSteps == 2

MAX_OBJECTIVES == NumFloors * OBJECTIVES_PER_FLOOR
\* enough entities for the local player or its successor, one live and one
\* leaked entity per slot and the objectives of one floor
MAX_ENTITIES == 2 * MAX_PLAYERS + OBJECTIVES_PER_FLOOR

Slots == 0 .. (MAX_PLAYERS - 1)
ObjIdx == 0 .. (MAX_OBJECTIVES - 1)
Entities == 0 .. (MAX_ENTITIES - 1)
Floors == 1 .. NumFloors
Levels == 0 .. NumFloors

(***************************************************************************)
(* Program constants.                                                      *)
(***************************************************************************)
\* the all-ones word memset(.., 255, ..) leaves in an unsigned int
UNASSIGNED == -1
\* objective_cache.entity_no (short) after memset 255
NO_ENTITY == -1
\* objective_cache.obj_state (char) after memset 255
STATE_FF == 255
SIZEOF_UINT == 4
SIZEOF_OBJECTIVE_CACHE == 4
NET_SHUTDOWN == -9
\* char err_buf[128]
ERR_BUF_SIZE == 128
CONNECT_CODE_ACCEPTED == 1
CONNECT_CODE_DENIED == 2
COPS == 1
ROBBERS == 2
GAME_RUNNING == 0
GAME_TEAM1_WIN == 1
GAME_TEAM2_WIN == 2
COLLISION_HACKER == 1
COLLISION_GUARD == 2
DIRECTION_NONE == 0
DIRECTION_RIGHT == 1
DIRECTION_LEFT == 2
DIRECTION_UP == 3
DIRECTION_DOWN == 4

Components == {"MOVEMENT", "POSITION", "PLAYER", "CONTROLLABLE",
               "RENDER_PLAYER", "COLLISION", "OBJECTIVE"}

IN_THIS_COMPONENT(mask, x) == x \subseteq mask

VARIABLES
    network_ready,          \* extern int network_ready
    floor_change_flag,      \* int floor_change_flag
    controllable_playerNo,  \* static int controllable_playerNo
    player_team,            \* extern int player_team
    player_table,           \* unsigned int *player_table
    objective_table,        \* objective_cache *objective_table
    world,                  \* World *world: mask, position, movement, player,
                            \* collision, animation, objective
    chat_log,               \* lines handed to chat_add_line
    calls,                  \* calls into the world collaborator made by the
                            \* action taken last, in order
    pc,                     \* position of the gameplay thread
    num_packets,            \* local num_packets of client_update_system
    i_pkt,                  \* local i of client_update_system
    n_read,                 \* packets read from the pipe since the start
    type,                   \* local type: type of the packet read last
    packet,                 \* local packet: the packet read last
    prev,                   \* the tables, the world and the locals before the
                            \* action taken last
    ret,                    \* value returned by the last call
    fault                   \* the handler run last made an out-of-bounds access

\* state of the gameplay thread and of the client update system
cusvars == <<network_ready, floor_change_flag, controllable_playerNo, player_team,
             player_table, objective_table, world, chat_log, calls, pc,
             num_packets, i_pkt, n_read, type, packet, prev, ret, fault>>

\* state of the network threads (ServerCommunication.cpp)
VARIABLES
    cnt_errno,              \* static int cnt_errno
    tcp_seq_num,            \* static uint64_t tcp_seq_num
    recv_pc,                \* position of the receive thread
    send_pc,                \* position of the send thread
    router_pipe,            \* what the receive thread handed to write_packet and
                            \* write_pipe on the pipe to the network router
    wire,                   \* bytes the send thread put on the sockets last, and
                            \* the item they were sent for
    net_ev,                 \* what the network action taken last did
    net_prev,               \* cnt_errno, tcp_seq_num, the thread positions,
                            \* router_pipe and wire before that action
    n_net,                  \* network actions taken since the start
    n_sent,                 \* iterations of the send thread among them
    sockets,                \* "open", or "closed" once close_connections ran
    handle_use,             \* state of the sockets when a thread last used
                            \* one, "none" before the first use
    game_signal,            \* gameplay wrote to game_net_signalfd and the
                            \* router has not answered yet
    net_pipe,               \* packet counts the router wrote to the pipe that
                            \* client_update_system reads, not read yet
    err_sem,                \* the semaphore err_sem: "free", or "reader" while
                            \* a thread inside get_error_string holds it
    err_buf                 \* what the call of client_update_system last made
                            \* did with its local err_buf

sockvars == <<cnt_errno, tcp_seq_num, recv_pc, send_pc, router_pipe, wire,
              net_ev, net_prev, n_net, n_sent, sockets, handle_use,
              game_signal, net_pipe, err_sem>>

netvars == <<sockvars, err_buf>>

vars == <<cusvars, netvars>>

(***************************************************************************)
(* The state the handlers read and write, as one record.                   *)
(***************************************************************************)
Cur == [player_table |-> player_table,
        objective_table |-> objective_table,
        world |-> world,
        controllable_playerNo |-> controllable_playerNo,
        player_team |-> player_team,
        floor_change_flag |-> floor_change_flag,
        chat_log |-> chat_log,
        calls |-> calls]

\* S without the record of the calls
View(S) == [S EXCEPT !.calls = <<>>]

Snapshot == [S |-> Cur, ret |-> ret, i_pkt |-> i_pkt, pc |-> pc]

Call(S, c) == [S EXCEPT !.calls = Append(S.calls, c)]

(***************************************************************************)
(* memset over an array of 4-byte elements (little-endian words).          *)
(***************************************************************************)
Pow256(k) == IF k = 0 THEN 1 ELSE IF k = 1 THEN 256
             ELSE IF k = 2 THEN 65536 ELSE 16777216

\* number of bytes of element idx that a memset of n bytes covers
CoveredBytes(idx, n, width) ==
    IF n <= idx * width THEN 0
    ELSE IF n >= (idx + 1) * width THEN width
    ELSE n - idx * width

\* an unsigned int whose nb low-address bytes are set to 0xFF
MemsetUInt(v, nb) ==
    IF nb = 0 THEN v
    ELSE IF nb = SIZEOF_UINT \/ v = UNASSIGNED THEN UNASSIGNED
    ELSE (v \div Pow256(nb)) * Pow256(nb) + Pow256(nb) - 1

\* an objective_cache {char obj_state; (pad); short entity_no} whose nb
\* low-address bytes are set to 0xFF
MemsetObj(e, nb) ==
    [obj_state |-> IF nb >= 1 THEN STATE_FF ELSE e.obj_state,
     entity_no |-> IF nb = SIZEOF_OBJECTIVE_CACHE \/ (nb = 3 /\ e.entity_no = NO_ENTITY)
                   THEN NO_ENTITY
                   ELSE IF nb = 3 THEN (e.entity_no \div 256) * 256 + 255
                   ELSE e.entity_no]

MemsetPlayerTable(tbl, n) ==
    [s \in Slots |-> MemsetUInt(tbl[s], CoveredBytes(s, n, SIZEOF_UINT))]

MemsetObjectiveTable(tbl, n) ==
    [o \in ObjIdx |-> MemsetObj(tbl[o], CoveredBytes(o, n, SIZEOF_OBJECTIVE_CACHE))]

(***************************************************************************)
(* World collaborator (world.h / world.cpp are not among the sources).     *)
(***************************************************************************)
PlayerMask == {"MOVEMENT", "POSITION", "PLAYER", "RENDER_PLAYER", "COLLISION"}
LocalMask == PlayerMask \cup {"CONTROLLABLE"}
ObjectiveMask == {"POSITION", "OBJECTIVE"}

ZeroPosition == [x |-> 0, y |-> 0, level |-> 0]
ZeroMovement == [movX |-> 0, movY |-> 0, lastDirection |-> DIRECTION_NONE]
ZeroPlayer == [teamNo |-> 0, playerNo |-> 0, readyStatus |-> 0]

EmptyWorld ==
    [mask |-> [e \in Entities |-> {}],
     position |-> [e \in Entities |-> ZeroPosition],
     movement |-> [e \in Entities |-> ZeroMovement],
     player |-> [e \in Entities |-> ZeroPlayer],
     collision |-> [e \in Entities |-> 0],
     animation |-> [e \in Entities |-> "none"],
     objective |-> [e \in Entities |-> 0]]

Alive(w, e) == w.mask[e] # {}

\* first free entity, MAX_ENTITIES when the world is full
create_entity(w) ==
    IF \E e \in Entities : ~Alive(w, e)
    THEN CHOOSE e \in Entities : ~Alive(w, e) /\ \A f \in Entities : f < e => Alive(w, f)
    ELSE MAX_ENTITIES

destroy_entity(w, e) ==
    IF e \in Entities THEN [w EXCEPT !.mask[e] = {}] ELSE w

load_animation(w, name, e) ==
    IF e \in Entities THEN [w EXCEPT !.animation[e] = name] ELSE w

\* create_player(world, x, y, controllable, collisiontype, playerNo, status_update)
create_player(w, x, y, controllable, ctype, playerNo, pkt) ==
    LET e == create_entity(w)
    IN IF e = MAX_ENTITIES THEN [world |-> w, entity |-> e]
       ELSE [world |->
               [w EXCEPT !.mask[e] = IF controllable THEN LocalMask ELSE PlayerMask,
                         !.position[e] = [x |-> x, y |-> y, level |-> 0],
                         !.movement[e] = ZeroMovement,
                         !.player[e] = [teamNo |-> pkt.otherPlayers_teams[playerNo],
                                        playerNo |-> playerNo,
                                        readyStatus |-> pkt.readystatus[playerNo]],
                         !.collision[e] = ctype,
                         !.animation[e] = "none"],
             entity |-> e]


\* rebuild_floor(world, floor): the objectives of the old floor go, the
\* OBJECTIVES_PER_FLOOR objectives of the new floor are created
RECURSIVE create_objectives(_, _, _)
create_objectives(w, floor, n) ==
    IF n = 0 THEN w
    ELSE LET e == create_entity(w)
         IN IF e = MAX_ENTITIES THEN w
            ELSE create_objectives(
                   [w EXCEPT !.mask[e] = ObjectiveMask,
                             !.position[e] = [x |-> 0, y |-> 0, level |-> floor],
                             !.objective[e] = 0],
                   floor, n - 1)

rebuild_floor(w, floor) ==
    create_objectives(
        [w EXCEPT !.mask = [e \in Entities |->
                              IF IN_THIS_COMPONENT(w.mask[e], {"OBJECTIVE"}) THEN {} ELSE w.mask[e]]],
        floor, OBJECTIVES_PER_FLOOR)

chat_add_line(log, message) == Append(log, message)

(***************************************************************************)
(* Outcome of a handler: the state it leaves, whether it made an           *)
(* out-of-bounds access, whether the process died at that access, and the  *)
(* connect code for client_update_info.                                    *)
(***************************************************************************)
Outcome(S, f, c) == [S |-> S, fault |-> f, crashed |-> c, code |-> CONNECT_CODE_ACCEPTED]

\* the choices an out-of-bounds access leaves open
GarbageObj == {[obj_state |-> 0, entity_no |-> 0],
               [obj_state |-> 1, entity_no |-> MAX_ENTITIES]}
UBChoices == [crash : BOOLEAN, level : Levels, obj : GarbageObj]
NoUB == [crash |-> FALSE, level |-> 0, obj |-> [obj_state |-> 0, entity_no |-> 0]]

(***************************************************************************)
(* client_update_chat                                                      *)
(***************************************************************************)
client_update_chat(S, pkt) ==
    Outcome([Call(S, [op |-> "chat_add_line"])
               EXCEPT !.chat_log = chat_add_line(S.chat_log, pkt.message)],
            FALSE, FALSE)

(***************************************************************************)
(* setup_character_animation, change_player, client_update_status          *)
(***************************************************************************)
KnownCharacters == {"ABHISHEK", "AMAN", "ANDREW", "CHRIS", "CORY", "DAMIEN",
                    "CLARK", "GERMAN", "IAN", "JORDAN", "JOSH", "KONST", "MAT",
                    "RAMZI", "ROBIN", "SAM", "SHANE", "TIM", "VINCENT"}

setup_character_animation(w, character, entity) ==
    IF character \in KnownCharacters
    THEN load_animation(w, character, entity)
    ELSE load_animation(w, "p0_rob", entity)

\* a change_player that leaves the animation of the entity as it is
change_player_keeps_animation(S, ptype, pkt, playerNo) ==
    LET e == S.player_table[playerNo]
        w == S.world
    IN IF e \in Entities
       THEN [S EXCEPT !.world =
               [w EXCEPT !.player[e] = [playerNo |-> playerNo,
                                        teamNo |-> pkt.otherPlayers_teams[playerNo],
                                        readyStatus |-> pkt.readystatus[playerNo]],
                         !.collision[e] = IF ptype = COPS THEN COLLISION_GUARD
                                          ELSE COLLISION_HACKER]]
       ELSE S

change_player(S, ptype, pkt, playerNo) ==
    LET e == S.player_table[playerNo]
        w == S.world
        w1 == IF e \in Entities
              THEN [w EXCEPT !.player[e] = [playerNo |-> playerNo,
                                            teamNo |-> pkt.otherPlayers_teams[playerNo],
                                            readyStatus |-> pkt.readystatus[playerNo]],
                             !.collision[e] = IF ptype = COPS THEN COLLISION_GUARD
                                              ELSE COLLISION_HACKER]
              ELSE w
        w2 == IF ptype = COPS
              THEN load_animation(w1, "cop", e)
              ELSE setup_character_animation(w1, pkt.characters[playerNo], e)
    IN [Call(S, [op |-> "load_animation", slot |-> playerNo, entity |-> e])
          EXCEPT !.world = w2]

\* the three consecutive ifs of lines 302-315
status_change(S, pkt, i) ==
    LET S1 == IF pkt.otherPlayers_teams[i] = COPS THEN change_player(S, COPS, pkt, i) ELSE S
        S2 == IF pkt.otherPlayers_teams[i] = ROBBERS THEN change_player(S1, ROBBERS, pkt, i) ELSE S1
    IN IF pkt.otherPlayers_teams[i] = 0 THEN change_player(S2, ROBBERS, pkt, i) ELSE S2

status_create(S, pkt, i) ==
    LET c == create_player(S.world, 400, 600, FALSE, COLLISION_HACKER, i, pkt)
        w == IF pkt.otherPlayers_teams[i] = COPS
             THEN load_animation(c.world, "cop", c.entity)
             ELSE setup_character_animation(c.world, pkt.characters[i], c.entity)
        S1 == Call(Call(S, [op |-> "create_player", slot |-> i, entity |-> c.entity]),
                   [op |-> "load_animation", slot |-> i, entity |-> c.entity])
    IN [S1 EXCEPT !.player_table[i] = c.entity, !.world = w]

\* Faulty variants of status_slot, used to test that the properties of
\* client_update_status tell the code from its near misses.
\* (a) without the test of line 288: a valid slot always gets a new entity
status_slot_always_creates(S, pkt, i) ==
    IF pkt.player_valid[i]
    THEN status_create(S, pkt, i)
    ELSE IF S.player_table[i] # UNASSIGNED
         THEN [Call(S, [op |-> "destroy_entity", slot |-> i,
                           entity |-> S.player_table[i]])
                 EXCEPT !.world = destroy_entity(S.world, S.player_table[i]),
                        !.player_table[i] = UNASSIGNED]
         ELSE S

\* (b) without line 320: the entry is reset, the entity is left in the world
status_slot_forgets_entity(S, pkt, i) ==
    IF pkt.player_valid[i]
    THEN IF S.player_table[i] = UNASSIGNED
         THEN status_create(S, pkt, i)
         ELSE status_change(S, pkt, i)
    ELSE [S EXCEPT !.player_table[i] = UNASSIGNED]

status_slot(S, pkt, i) ==
    IF pkt.player_valid[i]
    THEN IF S.player_table[i] = UNASSIGNED
         THEN status_create(S, pkt, i)
         ELSE status_change(S, pkt, i)
    ELSE IF S.player_table[i] # UNASSIGNED
         THEN [Call(S, [op |-> "destroy_entity", slot |-> i,
                           entity |-> S.player_table[i]])
                 EXCEPT !.world = destroy_entity(S.world, S.player_table[i]),
                        !.player_table[i] = UNASSIGNED]
         ELSE S

RECURSIVE status_loop(_, _, _)
status_loop(S, pkt, i) ==
    IF i >= MAX_PLAYERS THEN S
    ELSE status_loop(status_slot(S, pkt, i), pkt, i + 1)

client_update_status(S, pkt) == Outcome(status_loop(S, pkt, 0), FALSE, FALSE)

(***************************************************************************)
(* client_update_info                                                      *)
(***************************************************************************)
RECURSIVE info_loop(_, _, _)
info_loop(S, pkt, i) ==
    IF i >= MAX_ENTITIES THEN S
    ELSE info_loop(
           IF IN_THIS_COMPONENT(S.world.mask[i], {"MOVEMENT", "POSITION", "PLAYER", "CONTROLLABLE"})
           THEN [S EXCEPT !.world.player[i].teamNo = pkt.clients_team_number,
                          !.world.player[i].playerNo = pkt.clients_player_number,
                          !.controllable_playerNo = pkt.clients_player_number,
                          !.player_table[pkt.clients_player_number] = i]
           ELSE S,
           pkt, i + 1)

\* Faulty variant of client_update_info: the denial is not reported
client_update_info_no_denial(S, pkt) ==
    IF pkt.connect_code = CONNECT_CODE_DENIED
    THEN Outcome(S, FALSE, FALSE)
    ELSE Outcome(info_loop(S, pkt, 0), FALSE, FALSE)

client_update_info(S, pkt) ==
    IF pkt.connect_code = CONNECT_CODE_DENIED
    THEN [Outcome(S, FALSE, FALSE) EXCEPT !.code = CONNECT_CODE_DENIED]
    ELSE Outcome(info_loop(S, pkt, 0), FALSE, FALSE)

(***************************************************************************)
(* client_update_pos                                                       *)
(***************************************************************************)
\* the two tests of lines 217-227 in the other order: the horizontal
\* velocity is looked at last
pos_direction_horizontal_last(old, xVel, yVel) ==
    LET d1 == IF yVel < 0 THEN DIRECTION_DOWN
              ELSE IF yVel > 0 THEN DIRECTION_UP ELSE old
    IN IF xVel < 0 THEN DIRECTION_LEFT
       ELSE IF xVel > 0 THEN DIRECTION_RIGHT ELSE d1

pos_direction(old, xVel, yVel) ==
    LET d1 == IF xVel < 0 THEN DIRECTION_LEFT
              ELSE IF xVel > 0 THEN DIRECTION_RIGHT ELSE old
    IN IF yVel < 0 THEN DIRECTION_DOWN
       ELSE IF yVel > 0 THEN DIRECTION_UP ELSE d1

\* Faulty variant of pos_slot: a remote player that left the floor stays
\* as it was (lines 209-213 missing)
pos_slot_keeps_visible(R, pkt, i, u) ==
    LET S == R.S
        e == S.player_table[i]
        w == S.world
    IN IF i = S.controllable_playerNo THEN R
       ELSE IF e = UNASSIGNED THEN R
       ELSE IF e \notin Entities
            THEN [R EXCEPT !.fault = TRUE, !.crashed = u.crash]
       ELSE IF ~pkt.players_on_floor[i] THEN R
       ELSE [R EXCEPT
               !.S.world.mask[e] = w.mask[e] \cup {"RENDER_PLAYER", "COLLISION"},
               !.S.world.movement[e] =
                    [movX |-> pkt.xVel[i], movY |-> pkt.yVel[i],
                     lastDirection |-> pos_direction(w.movement[e].lastDirection,
                                                     pkt.xVel[i], pkt.yVel[i])],
               !.S.world.position[e] =
                    [x |-> pkt.xPos[i], y |-> pkt.yPos[i], level |-> pkt.floor]]

\* Faulty variant of pos_slot: the velocity of the packet is added to the
\* velocity the entity has
pos_slot_adds_velocity(R, pkt, i, u) ==
    LET S == R.S
        e == S.player_table[i]
        w == S.world
    IN IF i = S.controllable_playerNo THEN R
       ELSE IF e = UNASSIGNED THEN R
       ELSE IF e \notin Entities
            THEN [R EXCEPT !.fault = TRUE, !.crashed = u.crash]
       ELSE IF ~pkt.players_on_floor[i]
            THEN [R EXCEPT !.S.world.mask[e] = w.mask[e] \ {"RENDER_PLAYER", "COLLISION"}]
       ELSE [R EXCEPT
               !.S.world.mask[e] = w.mask[e] \cup {"RENDER_PLAYER", "COLLISION"},
               !.S.world.movement[e] =
                    [movX |-> w.movement[e].movX + pkt.xVel[i],
                     movY |-> w.movement[e].movY + pkt.yVel[i],
                     lastDirection |-> pos_direction(w.movement[e].lastDirection,
                                                     pkt.xVel[i], pkt.yVel[i])],
               !.S.world.position[e] =
                    [x |-> pkt.xPos[i], y |-> pkt.yPos[i], level |-> pkt.floor]]

\* one iteration of the loop of lines 201-233; R is an Outcome
pos_slot(R, pkt, i, u) ==
    LET S == R.S
        e == S.player_table[i]
        w == S.world
    IN IF i = S.controllable_playerNo THEN R
       ELSE IF e = UNASSIGNED THEN R
       ELSE IF e \notin Entities
            THEN [R EXCEPT !.fault = TRUE, !.crashed = u.crash]
       ELSE IF ~pkt.players_on_floor[i]
            THEN [R EXCEPT !.S.world.mask[e] = w.mask[e] \ {"RENDER_PLAYER", "COLLISION"}]
       ELSE [R EXCEPT
               !.S.world.mask[e] = w.mask[e] \cup {"RENDER_PLAYER", "COLLISION"},
               !.S.world.movement[e] =
                    [movX |-> pkt.xVel[i], movY |-> pkt.yVel[i],
                     lastDirection |-> pos_direction(w.movement[e].lastDirection,
                                                     pkt.xVel[i], pkt.yVel[i])],
               !.S.world.position[e] =
                    [x |-> pkt.xPos[i], y |-> pkt.yPos[i], level |-> pkt.floor]]

RECURSIVE pos_loop(_, _, _, _)
pos_loop(R, pkt, i, u) ==
    IF i >= MAX_PLAYERS \/ R.crashed THEN R
    ELSE pos_loop(pos_slot(R, pkt, i, u), pkt, i + 1, u)

\* Faulty variant of client_update_pos: the floor of the packet is not
\* compared with the level of the local player (line 200 missing)
client_update_pos_any_floor(S, pkt, u) ==
    LET e0 == S.player_table[S.controllable_playerNo]
        oob == e0 \notin Entities
    IN IF oob /\ u.crash THEN Outcome(S, TRUE, TRUE)
       ELSE pos_loop(Outcome(S, oob, FALSE), pkt, 0, u)

client_update_pos(S, pkt, u) ==
    LET e0 == S.player_table[S.controllable_playerNo]
        oob == e0 \notin Entities
        lvl == IF oob THEN u.level ELSE S.world.position[e0].level
    IN IF oob /\ u.crash THEN Outcome(S, TRUE, TRUE)
       ELSE IF pkt.floor = lvl THEN pos_loop(Outcome(S, oob, FALSE), pkt, 0, u)
       ELSE Outcome(S, oob, FALSE)

(***************************************************************************)
(* client_update_objectives                                                *)
(***************************************************************************)
\* Faulty variant of objectives_mirror: a zero byte is skipped (continue)
\* where the code stops (break)
RECURSIVE objectives_mirror_skips_zero(_, _, _)
objectives_mirror_skips_zero(tbl, pkt, i) ==
    IF i >= MAX_OBJECTIVES THEN tbl
    ELSE IF pkt.objectives_captured[i] = 0
         THEN objectives_mirror_skips_zero(tbl, pkt, i + 1)
    ELSE objectives_mirror_skips_zero(
             [tbl EXCEPT ![i].obj_state = pkt.objectives_captured[i]], pkt, i + 1)

\* first loop, lines 257-262
RECURSIVE objectives_mirror(_, _, _)
objectives_mirror(tbl, pkt, i) ==
    IF i >= MAX_OBJECTIVES THEN tbl
    ELSE IF pkt.objectives_captured[i] = 0 THEN tbl
    ELSE objectives_mirror([tbl EXCEPT ![i].obj_state = pkt.objectives_captured[i]],
                           pkt, i + 1)

\* second loop, lines 264-265; R is an Outcome
RECURSIVE objectives_reflect(_, _, _, _)
objectives_reflect(R, i, last, u) ==
    IF i >= last \/ R.crashed THEN R
    ELSE LET readOob == i \notin ObjIdx
             entry == IF readOob THEN u.obj ELSE R.S.objective_table[i]
             writeOob == entry.entity_no \notin Entities
             R1 == IF (readOob \/ writeOob) /\ u.crash
                   THEN [R EXCEPT !.fault = TRUE, !.crashed = TRUE]
                   ELSE IF writeOob THEN [R EXCEPT !.fault = TRUE]
                   ELSE [R EXCEPT !.fault = R.fault \/ readOob,
                                  !.S.world.objective[entry.entity_no] = entry.obj_state]
         IN objectives_reflect(R1, i + 1, last, u)

client_update_objectives(S, pkt, u) ==
    LET obj_idx == (S.world.position[S.controllable_playerNo].level - 1) * OBJECTIVES_PER_FLOOR
        S1 == IF pkt.game_status = GAME_TEAM1_WIN \/ pkt.game_status = GAME_TEAM2_WIN
              THEN [S EXCEPT !.player_team = 0] ELSE S
        S2 == [S1 EXCEPT !.objective_table = objectives_mirror(S1.objective_table, pkt, 0)]
    IN objectives_reflect(Outcome(S2, FALSE, FALSE), obj_idx,
                          OBJECTIVES_PER_FLOOR + obj_idx, u)

(***************************************************************************)
(* client_update_floor                                                     *)
(***************************************************************************)
\* loop of lines 172-179: obj_idx is not advanced
RECURSIVE floor_seed(_, _, _)
floor_seed(S, obj_idx, i) ==
    IF i >= MAX_ENTITIES THEN S
    ELSE floor_seed(
           IF IN_THIS_COMPONENT(S.world.mask[i], {"OBJECTIVE"})
           THEN [S EXCEPT !.objective_table[obj_idx].entity_no = i,
                          !.world.objective[i] = S.objective_table[obj_idx].obj_state]
           ELSE S,
           obj_idx, i + 1)

client_update_floor(S, pkt, u) ==
    LET obj_idx == (pkt.new_floor - 1) * OBJECTIVES_PER_FLOOR
        e0 == S.player_table[S.controllable_playerNo]
        oob == e0 \notin Entities
        S1 == IF oob THEN S
              ELSE [S EXCEPT !.world.position[e0] =
                        [x |-> pkt.xPos, y |-> pkt.yPos, level |-> pkt.new_floor]]
        S2 == [Call(S1, [op |-> "rebuild_floor", floor |-> pkt.new_floor])
                 EXCEPT !.world = rebuild_floor(S1.world, pkt.new_floor)]
        S3 == floor_seed(S2, obj_idx, 0)
    IN IF oob /\ u.crash THEN Outcome(S, TRUE, TRUE)
       ELSE Outcome([S3 EXCEPT !.floor_change_flag = 0], oob, FALSE)

\* Faulty variant of dispatch: case 7 ("Floor stuff") asks for a floor
\* change, a type without a case changes the team
dispatch_handles_unknown(S, t, pkt, u) ==
    IF S.floor_change_flag = 1
    THEN IF t = "P_FLOOR_MOVE" THEN client_update_floor(S, pkt, u)
         ELSE Outcome(S, FALSE, FALSE)
    ELSE IF t = "P_CONNECT" THEN client_update_info(S, pkt)
    ELSE IF t = "G_STATUS" THEN client_update_status(S, pkt)
    ELSE IF t = "P_CHAT" THEN client_update_chat(S, pkt)
    ELSE IF t = "P_OBJCTV_LOC" THEN client_update_objectives(S, pkt, u)
    ELSE IF t = "P_UNDEF" THEN Outcome([S EXCEPT !.floor_change_flag = 1], FALSE, FALSE)
    ELSE IF t = "P_OBJSTATUS" THEN client_update_objectives(S, pkt, u)
    ELSE IF t = "G_ALLPOSUPDATE" THEN client_update_pos(S, pkt, u)
    ELSE IF t = "P_FLOOR_MOVE" THEN client_update_floor(S, pkt, u)
    ELSE Outcome([S EXCEPT !.player_team = 3 - S.player_team], FALSE, FALSE)

(***************************************************************************)
(* The two switches of client_update_system, lines 79-121.                 *)
(***************************************************************************)
\* Faulty variant of dispatch: a Status packet is applied while a Floor-move
\* packet is waited for
dispatch_status_while_waiting(S, t, pkt, u) ==
    IF S.floor_change_flag = 1
    THEN IF t = "P_FLOOR_MOVE" THEN client_update_floor(S, pkt, u)
         ELSE IF t = "G_STATUS" THEN client_update_status(S, pkt)
         ELSE Outcome(S, FALSE, FALSE)
    ELSE IF t = "P_CONNECT" THEN client_update_info(S, pkt)
    ELSE IF t = "G_STATUS" THEN client_update_status(S, pkt)
    ELSE IF t = "P_CHAT" THEN client_update_chat(S, pkt)
    ELSE IF t = "P_OBJCTV_LOC" THEN client_update_objectives(S, pkt, u)
    ELSE IF t = "P_UNDEF" THEN Outcome(S, FALSE, FALSE)
    ELSE IF t = "P_OBJSTATUS" THEN client_update_objectives(S, pkt, u)
    ELSE IF t = "G_ALLPOSUPDATE" THEN client_update_pos(S, pkt, u)
    ELSE IF t = "P_FLOOR_MOVE" THEN client_update_floor(S, pkt, u)
    ELSE Outcome(S, FALSE, FALSE)

dispatch(S, t, pkt, u) ==
    IF S.floor_change_flag = 1
    THEN IF t = "P_FLOOR_MOVE" THEN client_update_floor(S, pkt, u)
         ELSE Outcome(S, FALSE, FALSE)
    ELSE IF t = "P_CONNECT" THEN client_update_info(S, pkt)
    ELSE IF t = "G_STATUS" THEN client_update_status(S, pkt)
    ELSE IF t = "P_CHAT" THEN client_update_chat(S, pkt)
    ELSE IF t = "P_OBJCTV_LOC" THEN client_update_objectives(S, pkt, u)
    ELSE IF t = "P_UNDEF" THEN Outcome(S, FALSE, FALSE)
    ELSE IF t = "P_OBJSTATUS" THEN client_update_objectives(S, pkt, u)
    ELSE IF t = "G_ALLPOSUPDATE" THEN client_update_pos(S, pkt, u)
    ELSE IF t = "P_FLOOR_MOVE" THEN client_update_floor(S, pkt, u)
    ELSE Outcome(S, FALSE, FALSE)

(***************************************************************************)
(* Packets the server can send (Packets.h is not among the sources; the    *)
(* fields are those the handlers read).  The All... sets are the domains   *)
(* the handlers are examined over; the Sent... sets are the packets the    *)
(* modelled server puts on the wire.                                       *)
(***************************************************************************)
Teams == {0, COPS, ROBBERS}
Vels == {-1, 0, 1}
Characters == {"AMAN", "NOBODY"}

ConnectPacket(code, n, t) ==
    [type |-> "P_CONNECT", connect_code |-> code,
     clients_player_number |-> n, clients_team_number |-> t]

StatusPacket(valid, teams, ready, chars) ==
    [type |-> "G_STATUS", player_valid |-> valid, otherPlayers_teams |-> teams,
     readystatus |-> ready, characters |-> chars]

PosPacket(f, on, xv, yv, xp, yp) ==
    [type |-> "G_ALLPOSUPDATE", floor |-> f, players_on_floor |-> on,
     xVel |-> xv, yVel |-> yv, xPos |-> xp, yPos |-> yp]

ObjectivePacket(t, gs, cap) ==
    [type |-> t, game_status |-> gs, objectives_captured |-> cap]

FloorPacket(f, xp, yp) ==
    [type |-> "P_FLOOR_MOVE", new_floor |-> f, xPos |-> xp, yPos |-> yp]

Const(v) == [s \in Slots |-> v]

AllConnectPackets ==
    {ConnectPacket(c, n, t) : c \in {CONNECT_CODE_ACCEPTED, CONNECT_CODE_DENIED},
                              n \in Slots, t \in {COPS, ROBBERS}}

AllStatusPackets ==
    {StatusPacket(v, t, Const(r), Const(c)) :
        v \in [Slots -> BOOLEAN], t \in [Slots -> Teams], r \in {0, 1}, c \in Characters}

AllPosPackets ==
    {PosPacket(f, on, Const(xv), Const(yv), Const(100), Const(200)) :
        f \in Levels, on \in [Slots -> BOOLEAN], xv \in Vels, yv \in Vels}

AllObjectivePackets ==
    {ObjectivePacket(t, gs, cap) :
        t \in {"P_OBJSTATUS", "P_OBJCTV_LOC"},
        gs \in {GAME_RUNNING, GAME_TEAM1_WIN, GAME_TEAM2_WIN},
        cap \in [ObjIdx -> {0, 1, 2}]}

AllFloorPackets == {FloorPacket(f, 300, 300) : f \in Floors}

SentConnectPackets ==
    {ConnectPacket(CONNECT_CODE_ACCEPTED, n, COPS) : n \in Slots}
    \cup {ConnectPacket(CONNECT_CODE_DENIED, 0, COPS)}

SentStatusPackets ==
    {StatusPacket(v, Const(t), Const(1), Const("AMAN")) :
        v \in [Slots -> BOOLEAN], t \in {COPS, ROBBERS}}

SentPosPackets ==
    {PosPacket(f, on, Const(-1), Const(1), Const(100), Const(200)) :
        f \in {0, 1}, on \in [Slots -> BOOLEAN]}

\* capture bytes: nothing, everything, and a list with a hole at index 1
SentCaptures ==
    {[o \in ObjIdx |-> 0], [o \in ObjIdx |-> 1],
     [o \in ObjIdx |-> IF o = 1 THEN 0 ELSE 2]}

SentObjectivePackets ==
    {ObjectivePacket("P_OBJSTATUS", gs, cap) :
        gs \in {GAME_RUNNING, GAME_TEAM1_WIN}, cap \in SentCaptures}
    \cup {ObjectivePacket("P_OBJCTV_LOC", GAME_RUNNING, [o \in ObjIdx |-> 1])}

SentFloorPackets == AllFloorPackets

ChatPackets == [type : {"P_CHAT"}, message : {"hello"}]

\* case 7 and a type the switch has no case for
OtherPackets == [type : {"P_UNDEF", "P_NAME"}]

NoPacket == [type |-> "none"]

\* what an out-of-bounds access of the handler of type t can produce
UBFor(t) ==
    IF t = "G_ALLPOSUPDATE"
    THEN {[NoUB EXCEPT !.crash = TRUE]} \cup {[NoUB EXCEPT !.level = l] : l \in Levels}
    ELSE IF t \in {"P_OBJSTATUS", "P_OBJCTV_LOC"}
    THEN {[NoUB EXCEPT !.crash = TRUE]} \cup {[NoUB EXCEPT !.obj = g] : g \in GarbageObj}
    ELSE {[NoUB EXCEPT !.crash = c] : c \in BOOLEAN}

(***************************************************************************)
(* Network threads (src/src/Network/ServerCommunication.cpp).              *)
(*                                                                         *)
(* Packets.h, ServerCommunication.h and PipeUtils are not among the        *)
(* sources: the packet types are scaled down to one type of each kind the  *)
(* code tells apart, and the values of the types, of the protocols and of  *)
(* the error codes are representatives (the error codes follow the index   *)
(* arithmetic of get_error_string).                                        *)
(***************************************************************************)
\* a type sent over TCP with a payload
P_CHAT == 1
\* the keep-alive type: TCP, no payload
P_KEEPALIVE == 2
\* a type sent over UDP
P_POSUPDATE == 3
\* a valid type get_protocol has no case for
G_ALLPOSUPDATE == 4
NUM_PACKETS == 4
TCP == 1
UDP == 2
\* grab_send_packet refuses types from 90 on
SEND_TYPE_LIMIT == 90
ERR_CONN_CLOSED == -2
ERR_TCP_RECV_FAIL == -3
ERR_UDP_RECV_FAIL == -4
ERR_CORRUPTED == -7
SIZEOF_TYPE == 4
SIZEOF_TIMESTAMP == 8

\* extern uint32_t packet_sizes[NUM_PACKETS], indexed by type - 1
packet_sizes ==
    [i \in 0 .. (NUM_PACKETS - 1) |->
        IF i + 1 = P_CHAT THEN 2 ELSE IF i + 1 = P_KEEPALIVE THEN 0 ELSE 1]

PayloadBytes == {0, 1}

\* a uint32_t / uint64_t as it lies in memory (little-endian) and back
LE32(v) == <<v % 256, (v \div 256) % 256, (v \div 65536) % 256,
             (v \div 16777216) % 256>>
\* U32 changed to read the bytes in the other order
U32_big_endian(b) == b[4] + 256 * b[3] + 65536 * b[2] + 16777216 * b[1]
U32(b) == b[1] + 256 * b[2] + 65536 * b[3] + 16777216 * b[4]
LE64(v) == LE32(v) \o LE32((v \div 65536) \div 65536)
U64(b) ==
    LET high == U32(SubSeq(b, 5, 8))
    IN U32(SubSeq(b, 1, 4)) + (IF high = 0 THEN 0 ELSE 65536 * 65536 * high)

\* n bytes of a buffer that received b, read from position from on: the
\* bytes b does not reach are what the buffer held before (fill)
Field(b, from, n, fill) ==
    [i \in 1 .. n |-> IF from + i - 1 <= Len(b) THEN b[from + i - 1] ELSE fill]

Buffer(b, n, fill) == Field(b, 1, n, fill)

\* What the accesses the language leaves undefined can produce: the process
\* dies at an out-of-bounds access (crash) or the access reads some value
\* (size for packet_sizes, protocol for the local of get_protocol, fill and
\* stamp for memory never written); write is what write_packet returns for a
\* NULL packet.
NetUBChoices ==
    [crash : BOOLEAN, size : {0, 1}, fill : {0, 1}, stamp : {0, 2},
     protocol : {0, TCP, UDP}, write : {"ok", "fail"}]
NoNetUB ==
    [crash |-> FALSE, size |-> 0, fill |-> 0, stamp |-> 0, protocol |-> 0,
     write |-> "fail"]

(***************************************************************************)
(* Send thread.                                                            *)
(***************************************************************************)
\* lines 660-686; a type without a case returns the local as it is
get_protocol(t, u) ==
    IF t \in {P_CHAT, P_KEEPALIVE} THEN TCP
    ELSE IF t = P_POSUPDATE THEN UDP
    ELSE u.protocol

\* packet_sizes[type - 1] as the code reads it, no range check made
SizeOf(t, u) == IF (t - 1) \in DOMAIN packet_sizes THEN packet_sizes[t - 1] ELSE u.size

\* lines 515-532; item is the record at the head of the pipe
grab_send_packet(item, u) ==
    IF item.type >= SEND_TYPE_LIMIT
    THEN [ret |-> -1, type |-> item.type, data |-> <<>>, fault |-> FALSE, crashed |-> FALSE]
    ELSE LET oob == (item.type - 1) \notin DOMAIN packet_sizes
         IN [ret |-> IF oob /\ u.crash THEN -1 ELSE 1,
             type |-> item.type,
             data |-> Buffer(item.data, SizeOf(item.type, u), u.fill),
             fault |-> oob,
             crashed |-> oob /\ u.crash]

\* lines 167-176; result is what SDLNet_TCP_Send returns
send_tcp(data, res) ==
    LET result == IF Len(data) = 0 THEN 0 ELSE IF res = "ok" THEN Len(data) ELSE -1
    IN [sock |-> TCP, bytes |-> data, result |-> result,
        ret |-> IF result <= 0 THEN -1 ELSE 0]

\* lines 199-215; numsent is what SDLNet_UDP_Send returns
send_udp(data, t, size, numsent) ==
    [sock |-> UDP,
     bytes |-> LE32(t) \o SubSeq(data, 1, size - SIZEOF_TYPE),
     result |-> numsent,
     ret |-> IF numsent < 0 THEN -1 ELSE 0]

\* what the SDL_net calls of one iteration return: SDLNet_TCP_Send for the
\* type and for the payload (all bytes or an error), SDLNet_UDP_Send (the
\* number of destinations sent to, 0 on an error)
SendResults == [tcp1 : {"ok", "fail"}, tcp2 : {"ok", "fail"}, udp : {1, 0}]

\* send_iteration changed to send every item as a datagram
send_iteration_all_udp(item, res, u) ==
    [calls |-> <<send_udp(item.data, item.type, Len(item.data) + SIZEOF_TYPE, res.udp)>>,
     fault |-> FALSE, crashed |-> FALSE, data |-> item.data]

\* one iteration of the loop of lines 130-146
send_iteration(item, res, u) ==
    LET g == grab_send_packet(item, u)
        protocol == get_protocol(g.type, u)
        nocase == g.type \notin {P_CHAT, P_KEEPALIVE, P_POSUPDATE}
    IN IF g.crashed \/ g.ret # 1
       THEN [calls |-> <<>>, fault |-> g.fault, crashed |-> g.crashed, data |-> g.data]
       ELSE [calls |->
               IF protocol = TCP
               THEN <<send_tcp(LE32(g.type), res.tcp1), send_tcp(g.data, res.tcp2)>>
               ELSE IF protocol = UDP
               THEN <<send_udp(g.data, g.type, SizeOf(g.type, u) + SIZEOF_TYPE, res.udp)>>
               ELSE <<>>,
             fault |-> g.fault \/ nocase,
             crashed |-> FALSE,
             data |-> g.data]

(***************************************************************************)
(* Receive thread.                                                         *)
(***************************************************************************)
\* lines 738-746: got is whether sem_trywait got err_sem
set_error(cur, error, got) == IF got THEN error ELSE cur

\* lines 459-474; rd is what SDLNet_TCP_Recv does (a read of no bytes
\* returns 0); the result is the value returned and cnt_errno
recv_tcp(cur, bufsize, rd) ==
    IF rd = "fail" THEN [numread |-> ERR_TCP_RECV_FAIL, cnt_errno |-> ERR_TCP_RECV_FAIL]
    ELSE IF rd = "closed" \/ bufsize = 0
    THEN [numread |-> ERR_CONN_CLOSED, cnt_errno |-> ERR_CONN_CLOSED]
    ELSE [numread |-> bufsize, cnt_errno |-> cur]

\* what a receive function hands back: NULL or a packet, the packet type,
\* the timestamp and whether the function set it
Received(null, t, pkt, ts, set, errno, seq, f, c) ==
    [null |-> null, type |-> t, packet |-> pkt, timestamp |-> ts, stamped |-> set,
     cnt_errno |-> errno, tcp_seq_num |-> seq, fault |-> f, crashed |-> c]

\* lines 342-381; in is what the socket delivers: the outcome of the read of
\* the type, the bytes of the stream, the outcome of the read of the payload
\* and whether err_sem is free
recv_tcp_packet(N, in, u) ==
    LET h == recv_tcp(N.cnt_errno, SIZEOF_TYPE, in.hdr)
        short == Len(in.bytes) < SIZEOF_TYPE
        t == U32(Buffer(in.bytes, SIZEOF_TYPE, u.fill))
        oob == (t - 1) \notin DOMAIN packet_sizes
        packet_size == SizeOf(t, u)
        p == recv_tcp(N.cnt_errno, packet_size, in.payload)
        partial == p.numread < 0 \/ Len(in.bytes) < SIZEOF_TYPE + packet_size
        game_packet == IF p.numread < 0 THEN [i \in 1 .. packet_size |-> u.fill]
                  ELSE Field(in.bytes, SIZEOF_TYPE + 1, packet_size, u.fill)
    IN IF h.numread < 0
       THEN Received(TRUE, 0, <<>>, u.stamp, FALSE,
                     set_error(h.cnt_errno, ERR_TCP_RECV_FAIL, in.sem),
                     N.tcp_seq_num, FALSE, FALSE)
       ELSE IF t = P_KEEPALIVE
       THEN Received(TRUE, t, <<>>, u.stamp, FALSE, N.cnt_errno, N.tcp_seq_num,
                     short, FALSE)
       ELSE IF (t <= 0 \/ t > NUM_PACKETS) /\ t # 0
       THEN Received(TRUE, t, <<>>, u.stamp, FALSE,
                     set_error(N.cnt_errno, ERR_CORRUPTED, in.sem),
                     N.tcp_seq_num, short, FALSE)
       ELSE IF oob /\ u.crash
       THEN Received(TRUE, t, <<>>, u.stamp, FALSE, N.cnt_errno, N.tcp_seq_num,
                     TRUE, TRUE)
       ELSE Received(FALSE, t, game_packet, N.tcp_seq_num, TRUE, p.cnt_errno,
                     N.tcp_seq_num + 1, short \/ oob \/ partial, FALSE)

\* lines 489-499 and 408-442; in is the outcome of SDLNet_UDP_Recv and the
\* datagram
recv_udp_packet(N, in, u) ==
    LET short == Len(in.bytes) < SIZEOF_TYPE
        t == U32(Buffer(in.bytes, SIZEOF_TYPE, u.fill))
        packet_size == SizeOf(t, u)
        whole == Len(in.bytes) >= SIZEOF_TYPE + packet_size + SIZEOF_TIMESTAMP
        ts == IF whole
              THEN U64(Field(in.bytes, SIZEOF_TYPE + packet_size + 1,
                             SIZEOF_TIMESTAMP, u.fill))
              ELSE u.stamp
    IN IF in.res = "fail"
       THEN Received(TRUE, 1, <<>>, u.stamp, FALSE, ERR_UDP_RECV_FAIL,
                     N.tcp_seq_num, FALSE, FALSE)
       ELSE IF t < 1 \/ t > NUM_PACKETS
       THEN Received(TRUE, t, <<>>, u.stamp, FALSE, ERR_CORRUPTED,
                     N.tcp_seq_num, short, FALSE)
       ELSE Received(FALSE, t, Field(in.bytes, SIZEOF_TYPE + 1, packet_size, u.fill),
                     ts, whole, N.cnt_errno, N.tcp_seq_num, short \/ ~whole, FALSE)

\* what write_packet and write_pipe are handed for one packet (lines 267-268
\* and 314-315): the type, the packet (or NULL) and, if write_packet
\* returned 0, the timestamp; decoded says that the receive function set
\* the timestamp
Forwarded(src, r, stamped) ==
    [src |-> src, type |-> r.type, null |-> r.null, packet |-> r.packet,
     stamped |-> stamped, timestamp |-> IF stamped THEN r.timestamp ELSE 0,
     decoded |-> r.stamped]

\* outcome of handle_tcp_in or handle_udp_in: ret is the value returned
\* (1: the function did not run), wrote is what went to the router pipe
Handled(rv, wrote, r) ==
    [ret |-> rv, wrote |-> wrote, cnt_errno |-> r.cnt_errno,
     tcp_seq_num |-> r.tcp_seq_num, fault |-> r.fault, crashed |-> r.crashed,
     recv |-> r]

\* the writes of lines 267-268 and 314-315: write_packet with a NULL packet
\* dies, fails or succeeds; with a packet it succeeds
forward(src, r, u) ==
    IF r.null /\ u.crash THEN Handled(0, <<>>, [r EXCEPT !.fault = TRUE, !.crashed = TRUE])
    ELSE IF r.null
    THEN Handled(0, <<Forwarded(src, r, u.write = "ok")>>, [r EXCEPT !.fault = TRUE])
    ELSE Handled(0, <<Forwarded(src, r, TRUE)>>, r)

\* lines 239-268: what handle_tcp_in does with the result r of
\* recv_tcp_packet
tcp_result(r, u) ==
    IF r.crashed THEN Handled(0, <<>>, r)
    ELSE IF r.null /\ r.cnt_errno = ERR_TCP_RECV_FAIL THEN Handled(-1, <<>>, r)
    ELSE IF r.null /\ r.cnt_errno = ERR_CONN_CLOSED THEN Handled(-1, <<>>, r)
    ELSE IF r.null /\ r.cnt_errno = ERR_CORRUPTED THEN Handled(-2, <<>>, r)
    ELSE forward("tcp", r, u)

\* lines 233-275
handle_tcp_in(N, in, u) == tcp_result(recv_tcp_packet(N, in, u), u)

\* lines 300-315: what handle_udp_in does with the result r of
\* recv_udp_packet
udp_result(r, u) ==
    IF r.null /\ r.cnt_errno = ERR_UDP_RECV_FAIL THEN Handled(-1, <<>>, r)
    ELSE IF r.null /\ r.cnt_errno = ERR_CORRUPTED THEN Handled(-2, <<>>, r)
    ELSE forward("udp", r, u)

\* lines 294-322
handle_udp_in(N, in, u) == udp_result(recv_udp_packet(N, in, u), u)

\* a socket that is not ready, and the outcome of a handler that did not run
TcpNotReady == [hdr |-> "none", bytes |-> <<>>, payload |-> "ok", sem |-> TRUE]
UdpNotReady == [res |-> "none", bytes |-> <<>>]
NotRun(N) ==
    Handled(1, <<>>, Received(TRUE, 0, <<>>, 0, FALSE, N.cnt_errno, N.tcp_seq_num,
                              FALSE, FALSE))

\* the outcome of an iteration of the loop of lines 60-99 in which the
\* handlers had the outcomes a and b
Iterated(a, b) ==
    [tcp |-> a, udp |-> b,
     wrote |-> a.wrote \o b.wrote,
     cnt_errno |-> b.cnt_errno,
     tcp_seq_num |-> b.tcp_seq_num,
     stopped |-> a.ret = -1 \/ b.ret = -1,
     fault |-> a.fault \/ b.fault,
     crashed |-> a.crashed \/ b.crashed]

\* lines 86-98: the UDP socket after handle_tcp_in had the outcome a (break
\* and continue skip it)
udp_after(a, Na, udp, u) ==
    Iterated(a, IF udp.res = "none" \/ a.crashed \/ a.ret = -1 \/ a.ret = -2
                THEN NotRun(Na) ELSE handle_udp_in(Na, udp, u))

tcp_then_udp(a, udp, u) ==
    udp_after(a, [cnt_errno |-> a.cnt_errno, tcp_seq_num |-> a.tcp_seq_num], udp, u)

\* one iteration of the loop of lines 60-99 with a socket ready: tcp and udp
\* are what the sockets deliver
recv_iteration(N, tcp, udp, u) ==
    tcp_then_udp(IF tcp.hdr = "none" THEN NotRun(N) ELSE handle_tcp_in(N, tcp, u),
                 udp, u)

(***************************************************************************)
(* What the server and the gameplay hand to the two threads.               *)
(***************************************************************************)
\* the bytes of a reliable unit and of a datagram as the server writes them
TcpUnit(t, payload) == LE32(t) \o payload
UdpUnit(t, payload, ts) == LE32(t) \o payload \o LE64(ts)

TcpRead(hdr, bytes, payload, sem) ==
    [hdr |-> hdr, bytes |-> bytes, payload |-> payload, sem |-> sem]
UdpRead(res, bytes) == [res |-> res, bytes |-> bytes]

\* reads of the TCP socket: a failed or closed read of the type, a chat
\* packet, a keep-alive, the types 0 and NUM_PACKETS + 1 (the latter also
\* while another thread holds err_sem), a chat packet whose payload read
\* fails
ServerTcpIn ==
    {TcpRead("fail", <<>>, "ok", TRUE), TcpRead("closed", <<>>, "ok", TRUE),
     TcpRead("ok", TcpUnit(P_CHAT, <<1, 0>>), "ok", TRUE),
     TcpRead("ok", TcpUnit(P_KEEPALIVE, <<>>), "ok", TRUE),
     TcpRead("ok", TcpUnit(0, <<>>), "ok", TRUE),
     TcpRead("ok", TcpUnit(NUM_PACKETS + 1, <<>>), "ok", TRUE),
     TcpRead("ok", TcpUnit(NUM_PACKETS + 1, <<>>), "ok", FALSE),
     TcpRead("ok", TcpUnit(P_CHAT, <<>>), "fail", TRUE)}

\* reads of the UDP socket: a failed receive, a position update, the type 0
ServerUdpIn ==
    {UdpRead("fail", <<>>),
     UdpRead("ok", UdpUnit(P_POSUPDATE, <<1>>, 1)),
     UdpRead("ok", UdpUnit(0, <<>>, 1))}

\* what check_sockets reports ready in one iteration
ReadyIn ==
    (ServerTcpIn \X {UdpNotReady}) \cup ({TcpNotReady} \X ServerUdpIn)
    \cup ({TcpRead("ok", TcpUnit(P_CHAT, <<1, 0>>), "ok", TRUE),
           TcpRead("ok", TcpUnit(P_KEEPALIVE, <<>>), "ok", TRUE),
           TcpRead("closed", <<>>, "ok", TRUE)}
          \X {UdpRead("ok", UdpUnit(P_POSUPDATE, <<1>>, 1))})

\* what the gameplay writes to the send pipe: packets of every type, a type
\* the size table has no entry for and one grab_send_packet refuses
SendItems ==
    {[type |-> P_CHAT, data |-> <<1, 0>>], [type |-> P_CHAT, data |-> <<0, 1>>],
     [type |-> P_KEEPALIVE, data |-> <<>>],
     [type |-> P_POSUPDATE, data |-> <<0>>], [type |-> P_POSUPDATE, data |-> <<1>>],
     [type |-> G_ALLPOSUPDATE, data |-> <<1>>],
     [type |-> NUM_PACKETS + 1, data |-> <<>>],
     [type |-> SEND_TYPE_LIMIT, data |-> <<>>]}

NoItem == [type |-> 0, data |-> <<>>]
NoSent == [calls |-> <<>>, fault |-> FALSE, crashed |-> FALSE, data |-> <<>>]
NoWire == [tcp |-> <<>>, udp |-> <<>>, type |-> 0, data |-> <<>>, sent |-> FALSE,
           whole |-> FALSE]

NetState == [cnt_errno |-> cnt_errno, tcp_seq_num |-> tcp_seq_num]
NetSnapshot ==
    [cnt_errno |-> cnt_errno, tcp_seq_num |-> tcp_seq_num, recv_pc |-> recv_pc,
     send_pc |-> send_pc, router_pipe |-> router_pipe, wire |-> wire]

\* the two sockets idle
NoIteration(N) == recv_iteration(N, TcpNotReady, UdpNotReady, NoNetUB)

\* the step last taken by a thread
NetEvent(op, tcp, udp, out, item, sent) ==
    [op |-> op, tcp_in |-> tcp, udp_in |-> udp, out |-> out, item |-> item,
     sent |-> sent]

\* no thread has taken a step
NoNetEvent == [op |-> "none"]

\* the outcomes of an iteration: one if the code's behaviour is defined, one
\* for each thing the undefined access can produce otherwise
OutcomesOr(d, all) == IF d.fault THEN all ELSE {d}

RecvOutcomes(N, tcp, udp) ==
    OutcomesOr(recv_iteration(N, tcp, udp, NoNetUB),
               {recv_iteration(N, tcp, udp, u) : u \in NetUBChoices})

SendOutcomes(item, res) ==
    OutcomesOr(send_iteration(item, res, NoNetUB),
               {send_iteration(item, res, u) : u \in NetUBChoices})

\* the bytes that leave the machine in the calls of one iteration
RECURSIVE Emitted(_, _)
Emitted(cs, sock) ==
    IF cs = <<>> THEN <<>>
    ELSE (IF Head(cs).sock = sock /\ Head(cs).ret = 0 /\ Head(cs).result # 0
          THEN Head(cs).bytes ELSE <<>>) \o Emitted(Tail(cs), sock)

\* static state of the file (lines 28-30) before the threads start
\* err_buf of a call that read no error text
NoErrorText ==
    [str_size |-> 0, read |-> 0, terminator |-> -1, fault |-> FALSE,
     crashed |-> FALSE]

\* the 4-byte lengths that follow NET_SHUTDOWN on the pipe: no text, a text
\* that fills err_buf up to its last byte, a text as long as err_buf
ShutdownLengths == {0, ERR_BUF_SIZE - 1, ERR_BUF_SIZE}

NetInit ==
    /\ cnt_errno = -1
    /\ tcp_seq_num = 0
    /\ recv_pc = "polling"
    /\ send_pc = "running"
    /\ router_pipe = <<>>
    /\ wire = NoWire
    /\ net_ev = NoNetEvent
    /\ n_net = 0
    /\ n_sent = 0
    /\ sockets = "open"
    /\ handle_use = "none"
    /\ game_signal = FALSE
    /\ net_pipe = <<>>
    /\ err_sem = "free"
    /\ err_buf = NoErrorText
    /\ net_prev = NetSnapshot

(***************************************************************************)
(* State after init_client_update and the creation of the local player     *)
(* (setup_play: create_player(world, 600, 600, true)).                     *)
(***************************************************************************)
init_client_update(garbagePlayers, garbageObjectives) ==
    [player_table |-> MemsetPlayerTable(garbagePlayers, MAX_PLAYERS * SIZEOF_UINT),
     objective_table |-> MemsetObjectiveTable(garbageObjectives, MAX_OBJECTIVES)]

InitWorld ==
    [EmptyWorld EXCEPT !.mask[0] = LocalMask,
                       !.position[0] = [x |-> 600, y |-> 600, level |-> 0]]

Init ==
    /\ network_ready = 0
    /\ floor_change_flag = 0
    /\ controllable_playerNo = 0
    /\ player_team \in {0, COPS}
    /\ \E g \in GarbageObj :
         LET t == init_client_update([s \in Slots |-> 0], [o \in ObjIdx |-> g])
         IN /\ player_table = t.player_table
            /\ objective_table = t.objective_table
    /\ world = InitWorld
    /\ chat_log = <<>>
    /\ calls = <<>>
    /\ pc = "start"
    /\ num_packets = 0
    /\ i_pkt = 0
    /\ n_read = 0
    /\ type = "none"
    /\ packet = NoPacket
    /\ ret = 0
    /\ fault = FALSE
    /\ NetInit
    /\ prev = Snapshot

(***************************************************************************)
(* client_update_system                                                    *)
(***************************************************************************)
AtCall == pc \in {"start", "returned"}

\* an action that reads no packet and calls nothing
NoPacketRead ==
    /\ type' = "none"
    /\ packet' = NoPacket
    /\ calls' = <<>>
    /\ prev' = Snapshot

\* the network module comes up (network_ready is set outside these sources)
NetworkReady ==
    /\ AtCall
    /\ network_ready = 0
    /\ network_ready' = 1
    /\ NoPacketRead
    /\ UNCHANGED <<floor_change_flag, controllable_playerNo, player_team,
                   player_table, objective_table, world, chat_log, pc,
                   num_packets, i_pkt, n_read, ret, fault>>
    /\ UNCHANGED netvars

\* the local player asks for a floor change (gameplay sets the flag)
RequestFloorChange ==
    /\ AtCall
    /\ network_ready = 1
    /\ floor_change_flag = 0
    /\ floor_change_flag' = 1
    /\ NoPacketRead
    /\ UNCHANGED <<network_ready, controllable_playerNo, player_team,
                   player_table, objective_table, world, chat_log, pc,
                   num_packets, i_pkt, n_read, ret, fault>>
    /\ UNCHANGED netvars

\* a call that, the network not being ready, returns -3 and withdraws the
\* request for a floor change
TickNotReady_clears_flag ==
    /\ pc \in {"start", "returned", "down"}
    /\ network_ready = 0
    /\ ret' = -3
    /\ floor_change_flag' = 0
    /\ pc' = IF pc = "down" THEN "down" ELSE "returned"
    /\ NoPacketRead
    /\ UNCHANGED <<network_ready, controllable_playerNo,
                   player_team, player_table, objective_table, world, chat_log,
                   num_packets, i_pkt, n_read, fault>>
    /\ err_buf' = NoErrorText
    /\ UNCHANGED sockvars

\* lines 53-54
TickNotReady ==
    /\ pc \in {"start", "returned", "down"}
    /\ network_ready = 0
    /\ ret' = -3
    /\ pc' = IF pc = "down" THEN "down" ELSE "returned"
    /\ NoPacketRead
    /\ UNCHANGED <<network_ready, floor_change_flag, controllable_playerNo,
                   player_team, player_table, objective_table, world, chat_log,
                   num_packets, i_pkt, n_read, fault>>
    /\ err_buf' = NoErrorText
    /\ UNCHANGED sockvars

\* lines 56-57 with a packet count
TickBegin ==
    /\ AtCall
    /\ network_ready = 1
    /\ \E n \in 0 .. MaxBatch :
         /\ n_read + n <= MaxPackets
         /\ num_packets' = n
    /\ i_pkt' = 0
    /\ pc' = "loop"
    /\ NoPacketRead
    /\ UNCHANGED <<network_ready, floor_change_flag, controllable_playerNo,
                   player_team, player_table, objective_table, world, chat_log,
                   n_read, ret, fault>>
    /\ err_buf' = NoErrorText
    /\ UNCHANGED sockvars

\* lines 61-69: str_size bytes are read to err_buf from its start and, if
\* str_size is not 0, err_buf[str_size] is set to 0; read is the number of
\* bytes read, terminator the index written (-1: none).  A write past the
\* end of err_buf kills the process (crash) or goes unnoticed.
read_error_text(str_size, crash) ==
    LET text == str_size # 0
        past == text /\ str_size >= ERR_BUF_SIZE
    IN [str_size |-> str_size,
        read |-> IF text THEN str_size ELSE 0,
        terminator |-> IF text THEN str_size ELSE -1,
        fault |-> past,
        crashed |-> past /\ crash]

ErrorTextOutcomes(str_size) ==
    {read_error_text(str_size, crash) :
        crash \in (IF read_error_text(str_size, FALSE).fault THEN BOOLEAN
                   ELSE {FALSE})}

\* lines 59-74
TickShutdown ==
    /\ AtCall
    /\ network_ready = 1
    /\ num_packets' = NET_SHUTDOWN
    /\ \E str_size \in ShutdownLengths :
         \E r \in ErrorTextOutcomes(str_size) :
            /\ err_buf' = r
            /\ IF r.crashed
               THEN /\ pc' = "crashed"
                    /\ UNCHANGED <<player_table, objective_table, network_ready,
                                   ret>>
               ELSE /\ player_table' = MemsetPlayerTable(player_table, MAX_PLAYERS)
                    /\ objective_table' =
                          MemsetObjectiveTable(objective_table, MAX_OBJECTIVES)
                    /\ network_ready' = 0
                    /\ ret' = -2
                    /\ pc' = "down"
    /\ NoPacketRead
    /\ UNCHANGED <<floor_change_flag, controllable_playerNo, player_team, world,
                   chat_log, i_pkt, n_read, fault>>
    /\ UNCHANGED sockvars

\* one iteration of the loop of lines 76-123 reading packet p
Step(p) ==
    /\ pc = "loop"
    /\ i_pkt < num_packets
    /\ \E u \in (IF dispatch(View(Cur), p.type, p, NoUB).fault
                 THEN UBFor(p.type) ELSE {NoUB}) :
         LET r == dispatch(View(Cur), p.type, p, u)
         IN /\ player_table' = r.S.player_table
            /\ calls' = r.S.calls
            /\ objective_table' = r.S.objective_table
            /\ world' = r.S.world
            /\ controllable_playerNo' = r.S.controllable_playerNo
            /\ player_team' = r.S.player_team
            /\ floor_change_flag' = r.S.floor_change_flag
            /\ chat_log' = r.S.chat_log
            /\ fault' = r.fault
            /\ IF r.crashed
               THEN pc' = "crashed" /\ UNCHANGED <<i_pkt, ret>>
               ELSE IF r.code = CONNECT_CODE_DENIED
               THEN pc' = "returned" /\ ret' = -1 /\ UNCHANGED i_pkt
               ELSE pc' = "loop" /\ i_pkt' = i_pkt + 1 /\ UNCHANGED ret
    /\ type' = p.type
    /\ packet' = p
    /\ prev' = Snapshot
    /\ n_read' = n_read + 1
    /\ UNCHANGED <<network_ready, num_packets>>
    /\ UNCHANGED netvars

\* read_data returns a packet of each type the server sends
RecvConnect ==
    /\ pc = "loop"
    /\ \E p \in SentConnectPackets : Step(p)

RecvStatus ==
    /\ pc = "loop"
    /\ \E p \in SentStatusPackets : Step(p)

RecvPos ==
    /\ pc = "loop"
    /\ \E p \in SentPosPackets : Step(p)

RecvObjectives ==
    /\ pc = "loop"
    /\ \E p \in SentObjectivePackets : Step(p)

RecvFloorMove ==
    /\ pc = "loop"
    /\ \E p \in SentFloorPackets : Step(p)

RecvChat ==
    /\ Len(chat_log) < MaxChatLines \/ floor_change_flag = 1
    /\ \E p \in ChatPackets : Step(p)

RecvOther ==
    /\ pc = "loop"
    /\ \E p \in OtherPackets : Step(p)

\* line 125
TickEnd ==
    /\ pc = "loop"
    /\ i_pkt >= num_packets
    /\ ret' = 0
    /\ pc' = "returned"
    /\ NoPacketRead
    /\ UNCHANGED <<network_ready, floor_change_flag, controllable_playerNo,
                   player_team, player_table, objective_table, world, chat_log,
                   num_packets, i_pkt, n_read, fault>>
    /\ UNCHANGED netvars

Next ==
    \/ NetworkReady
    \/ RequestFloorChange
    \/ TickNotReady
    \/ TickBegin
    \/ TickShutdown
    \/ RecvConnect
    \/ RecvStatus
    \/ RecvPos
    \/ RecvObjectives
    \/ RecvFloorMove
    \/ RecvChat
    \/ RecvOther
    \/ TickEnd

Spec == Init /\ [][Next]_vars

(***************************************************************************)
(* The network threads (recv_thread_func, lines 51-103, and                *)
(* send_thread_func, lines 121-148): one action per iteration of a loop.   *)
(***************************************************************************)
\* the effect of an iteration of the receive loop with outcome o
RecvApply(op, tcp, udp, o) ==
    /\ cnt_errno' = o.cnt_errno
    /\ tcp_seq_num' = o.tcp_seq_num
    /\ router_pipe' = router_pipe \o o.wrote
    /\ recv_pc' = IF o.crashed THEN "crashed" ELSE IF o.stopped THEN "stopped"
                  ELSE "polling"
    /\ send_pc' = IF o.crashed THEN "crashed" ELSE send_pc
    /\ net_ev' = NetEvent(op, tcp, udp, o, NoItem, NoSent)
    /\ net_prev' = NetSnapshot
    /\ n_net' = n_net + 1

\* lines 62-66: check_sockets returns -1
RecvPollFail ==
    /\ recv_pc = "polling"
    /\ n_net < MaxNetSteps
    /\ RecvApply("poll_fail", TcpNotReady, UdpNotReady,
                 [NoIteration(NetState) EXCEPT !.stopped = TRUE])
    /\ UNCHANGED <<wire, n_sent, sockets, handle_use, game_signal, net_pipe, err_sem, err_buf,
                   cusvars>>

\* a receive thread that clears a slot of the player table when its poll
\* times out
RecvPollTimeout_clears_slot ==
    /\ n_net < MaxNetSteps
    /\ recv_pc = "polling"
    /\ RecvApply("poll_timeout", TcpNotReady, UdpNotReady, NoIteration(NetState))
    /\ player_table' = [player_table EXCEPT ![0] = UNASSIGNED]
    /\ UNCHANGED <<wire, n_sent, sockets, handle_use, game_signal, net_pipe,
                   err_sem, err_buf>>
    /\ UNCHANGED <<network_ready, floor_change_flag, controllable_playerNo,
                   player_team, objective_table, world, chat_log, calls, pc,
                   num_packets, i_pkt, n_read, type, packet, prev, ret, fault>>

\* lines 68-71: check_sockets returns 0
RecvPollTimeout ==
    /\ n_net < MaxNetSteps
    /\ recv_pc = "polling"
    /\ RecvApply("poll_timeout", TcpNotReady, UdpNotReady, NoIteration(NetState))
    /\ UNCHANGED <<wire, n_sent, sockets, handle_use, game_signal, net_pipe, err_sem, err_buf,
                   cusvars>>

\* lines 73-98: a socket has data from the server
RecvPollReady ==
    /\ recv_pc = "polling" /\ n_net < MaxNetSteps
    /\ \E in \in ReadyIn :
         \E o \in RecvOutcomes(NetState, in[1], in[2]) :
            RecvApply("recv", in[1], in[2], o)
    /\ handle_use' = sockets
    /\ UNCHANGED <<wire, n_sent, sockets, game_signal, net_pipe, err_sem, err_buf,
                   cusvars>>

\* lines 73-98 with the sockets looped back: the data is what the send
\* thread last emitted
RecvEcho ==
    /\ wire.sent /\ recv_pc = "polling" /\ n_net < MaxNetSteps
    /\ wire.tcp # <<>> \/ wire.udp # <<>>
    /\ LET tcp == IF wire.tcp # <<>> THEN TcpRead("ok", wire.tcp, "ok", TRUE)
                  ELSE TcpNotReady
           udp == IF wire.udp # <<>> THEN UdpRead("ok", wire.udp) ELSE UdpNotReady
       IN \E o \in RecvOutcomes(NetState, tcp, udp) : RecvApply("echo", tcp, udp, o)
    /\ wire' = [wire EXCEPT !.sent = FALSE]
    /\ handle_use' = sockets
    /\ UNCHANGED <<n_sent, sockets, game_signal, net_pipe, err_sem, err_buf,
                   cusvars>>

\* lines 130-146: one item of the send pipe
SendStep ==
    /\ send_pc = "running" /\ n_net < MaxNetSteps /\ n_sent < MaxSends
    /\ \E item \in SendItems, res \in SendResults :
         \E o \in SendOutcomes(item, res) :
            /\ send_pc' = IF o.crashed THEN "crashed" ELSE "running"
            /\ recv_pc' = IF o.crashed /\ recv_pc = "polling" THEN "crashed"
                          ELSE recv_pc
            /\ wire' = [tcp |-> Emitted(o.calls, TCP), udp |-> Emitted(o.calls, UDP),
                        type |-> item.type, data |-> o.data,
                        sent |-> o.calls # <<>>,
                        whole |-> \A k \in 1 .. Len(o.calls) :
                                     o.calls[k].ret = 0 /\ o.calls[k].result # 0]
            /\ handle_use' = IF o.calls # <<>> THEN sockets ELSE handle_use
            /\ net_ev' = NetEvent("send", TcpNotReady, UdpNotReady,
                                  NoIteration(NetState), item, o)
    /\ net_prev' = NetSnapshot
    /\ n_net' = n_net + 1
    /\ n_sent' = n_sent + 1
    /\ UNCHANGED <<cnt_errno, tcp_seq_num, router_pipe, sockets, game_signal, net_pipe, err_sem, err_buf,
                   cusvars>>

NetNext ==
    \/ RecvPollFail
    \/ RecvPollTimeout
    \/ RecvPollReady
    \/ RecvEcho
    \/ SendStep

\* the threads do not read the tables of the update system: one of its
\* initial states is taken
InitNet ==
    /\ Init
    /\ player_team = 0
    /\ objective_table = init_client_update([s \in Slots |-> 0],
                                            [o \in ObjIdx |-> NoUB.obj]).objective_table

SpecNet == InitNet /\ [][NetNext]_vars

(***************************************************************************)
(* The threads and the release of the sockets.  Neither thread function    *)
(* reads a flag the closing side sets, so close_connections can run at any *)
(* point of their loops.                                                   *)
(***************************************************************************)

\* lines 703-718: the sockets are taken out of the set and closed
CloseConnections ==
    /\ sockets = "open"
    /\ sockets' = "closed"
    /\ net_ev' = NetEvent("close", TcpNotReady, UdpNotReady,
                          NoIteration(NetState), NoItem, NoSent)
    /\ net_prev' = NetSnapshot
    /\ UNCHANGED <<cnt_errno, tcp_seq_num, recv_pc, send_pc, router_pipe, wire,
                   n_net, n_sent, handle_use, game_signal, net_pipe, err_sem, err_buf,
                   cusvars>>

\* a thread inside SDL_net on a socket that was closed and freed under it:
\* the process can die there
UseClosedSocket ==
    /\ sockets = "closed"
    /\ recv_pc = "polling" \/ send_pc = "running"
    /\ recv_pc' = "crashed"
    /\ send_pc' = "crashed"
    /\ handle_use' = "closed"
    /\ net_ev' = NetEvent("use_closed", TcpNotReady, UdpNotReady,
                          NoIteration(NetState), NoItem, NoSent)
    /\ net_prev' = NetSnapshot
    /\ UNCHANGED <<cnt_errno, tcp_seq_num, router_pipe, wire, n_net, n_sent,
                   sockets, game_signal, net_pipe, err_sem, err_buf,
                   cusvars>>

RecvThread == RecvPollFail \/ RecvPollTimeout \/ RecvPollReady \/ RecvEcho

ShutdownNext ==
    \/ RecvPollFail
    \/ RecvPollTimeout
    \/ RecvPollReady
    \/ RecvEcho
    \/ SendStep
    \/ CloseConnections
    \/ UseClosedSocket

\* both threads are scheduled for as long as they can take a step
SpecShutdown ==
    InitNet /\ [][ShutdownNext]_vars /\ WF_vars(RecvThread) /\ WF_vars(SendStep)

(***************************************************************************)
(* The receive thread, the network router and client_update_system.  The   *)
(* router answers a request of gameplay with a packet count, and with      *)
(* NET_SHUTDOWN once the receive side has told it of an error.  The        *)
(* packets that follow a count are those the server sends.                 *)
(***************************************************************************)

threadvars == <<cnt_errno, tcp_seq_num, recv_pc, send_pc, router_pipe, wire,
                net_ev, net_prev, n_net, n_sent, sockets, handle_use, err_sem>>

\* records of an error that the receive thread wrote to the router
ErrorRecords == {k \in 1 .. Len(router_pipe) : router_pipe[k].src = "error"}

\* lines 53-56: the network is ready, gameplay signals the router and goes
\* on to read the packet count
GameCall ==
    /\ AtCall
    /\ network_ready = 1
    /\ ~game_signal
    /\ game_signal' = TRUE
    /\ pc' = "reading"
    /\ NoPacketRead
    /\ UNCHANGED <<network_ready, floor_change_flag, controllable_playerNo,
                   player_team, player_table, objective_table, world, chat_log,
                   num_packets, i_pkt, n_read, ret, fault, net_pipe, threadvars>>
    /\ err_buf' = NoErrorText

\* the router answers the signal
RouterReply ==
    /\ game_signal
    /\ \E n \in 0 .. MaxBatch :
         /\ n_read + n <= MaxPackets
         /\ net_pipe' = Append(net_pipe,
                               IF ErrorRecords # {} THEN NET_SHUTDOWN ELSE n)
    /\ game_signal' = FALSE
    /\ UNCHANGED <<cusvars, threadvars, err_buf>>

\* lines 57-76: read_type returns once the router wrote a count
GameRead ==
    /\ pc = "reading"
    /\ net_pipe # <<>>
    /\ net_pipe' = Tail(net_pipe)
    /\ num_packets' = Head(net_pipe)
    /\ IF Head(net_pipe) = NET_SHUTDOWN
       THEN \E str_size \in ShutdownLengths :
              \E r \in ErrorTextOutcomes(str_size) :
                 /\ err_buf' = r
                 /\ UNCHANGED i_pkt
                 /\ IF r.crashed
                    THEN /\ pc' = "crashed"
                         /\ UNCHANGED <<player_table, objective_table,
                                        network_ready, ret>>
                    ELSE /\ player_table' =
                               MemsetPlayerTable(player_table, MAX_PLAYERS)
                         /\ objective_table' =
                               MemsetObjectiveTable(objective_table, MAX_OBJECTIVES)
                         /\ network_ready' = 0
                         /\ ret' = -2
                         /\ pc' = "down"
       ELSE /\ i_pkt' = 0
            /\ pc' = "loop"
            /\ UNCHANGED <<player_table, objective_table, network_ready, ret,
                           err_buf>>
    /\ NoPacketRead
    /\ UNCHANGED <<floor_change_flag, controllable_playerNo, player_team, world,
                   chat_log, n_read, fault, game_signal, threadvars>>

Gameplay == NetworkReady \/ GameCall \/ GameRead \/ RecvOther \/ TickEnd

\* the iterations of the receive thread
LossPollFail ==
    /\ n_net < MaxLossSteps
    /\ RecvPollFail

LossPollTimeout ==
    /\ n_net < MaxLossSteps
    /\ RecvPollTimeout

LossPollReady ==
    /\ n_net < MaxLossSteps
    /\ RecvPollReady

LossNext ==
    \/ NetworkReady
    \/ LossPollFail
    \/ LossPollTimeout
    \/ LossPollReady
    \/ GameCall
    \/ RouterReply
    \/ GameRead
    \/ RecvOther
    \/ TickEnd

\* gameplay calls client_update_system every frame and the router runs
SpecLoss ==
    /\ InitNet
    /\ [][LossNext]_vars
    /\ WF_vars(Gameplay)
    /\ WF_vars(RouterReply)

(***************************************************************************)
(* The receive thread and a thread that calls get_error_string.            *)
(***************************************************************************)

\* line 783: sem_wait returns once the semaphore is free
ErrSemWait ==
    /\ err_sem = "free"
    /\ err_sem' = "reader"
    /\ net_ev' = NetEvent("sem_wait", TcpNotReady, UdpNotReady,
                          NoIteration(NetState), NoItem, NoSent)
    /\ net_prev' = NetSnapshot
    /\ UNCHANGED <<cnt_errno, tcp_seq_num, recv_pc, send_pc, router_pipe, wire,
                   n_net, n_sent, sockets, handle_use, game_signal, net_pipe,
                   err_buf, cusvars>>

\* lines 787-788: cnt_errno is read and the semaphore released
ErrSemPost ==
    /\ err_sem = "reader"
    /\ err_sem' = "free"
    /\ net_ev' = NetEvent("sem_post", TcpNotReady, UdpNotReady,
                          NoIteration(NetState), NoItem, NoSent)
    /\ net_prev' = NetSnapshot
    /\ UNCHANGED <<cnt_errno, tcp_seq_num, recv_pc, send_pc, router_pipe, wire,
                   n_net, n_sent, sockets, handle_use, game_signal, net_pipe,
                   err_buf, cusvars>>

\* lines 73-98: an iteration of the receive thread; sem_trywait in set_error
\* gets the semaphore if no thread is inside get_error_string
ErrRecv ==
    /\ recv_pc = "polling" /\ n_net < MaxErrSteps
    /\ \E in \in ReadyIn :
         LET tcp == [in[1] EXCEPT !.sem = err_sem = "free"]
         IN \E o \in RecvOutcomes(NetState, tcp, in[2]) :
               RecvApply("recv", tcp, in[2], o)
    /\ handle_use' = sockets
    /\ UNCHANGED <<wire, n_sent, sockets, game_signal, net_pipe, err_sem, err_buf, cusvars>>

ErrNext ==
    \/ ErrSemWait
    \/ ErrSemPost
    \/ ErrRecv

SpecErr == InitNet /\ [][ErrNext]_vars

(***************************************************************************)
(* client_update_system with Position-update packets of every velocity.   *)
(***************************************************************************)

RecvAnyPos ==
    /\ pc = "loop"
    /\ \E p \in AllPosPackets : Step(p)

PosNext ==
    \/ NetworkReady
    \/ TickBegin
    \/ RecvConnect
    \/ RecvStatus
    \/ RecvAnyPos
    \/ TickEnd

SpecPos == InitNet /\ [][PosNext]_vars

(***************************************************************************)
(* The three threads together: client_update_system on the gameplay thread *)
(* interleaved with the iterations of the receive and the send thread.     *)
(***************************************************************************)

\* a call of client_update_system that reads packets
ThreadsTickBegin ==
    /\ n_read < MaxThreadsRead
    /\ TickBegin
    /\ n_read + num_packets' <= MaxThreadsRead

ThreadsSend ==
    /\ n_net < MaxLossSteps
    /\ SendStep

ThreadsNext ==
    \/ NetworkReady
    \/ TickNotReady
    \/ ThreadsTickBegin
    \/ TickShutdown
    \/ RecvConnect
    \/ RecvStatus
    \/ RecvPos
    \/ RecvObjectives
    \/ RecvFloorMove
    \/ TickEnd
    \/ LossPollFail
    \/ LossPollTimeout
    \/ LossPollReady
    \/ ThreadsSend

SpecThreads == InitNet /\ [][ThreadsNext]_vars

(***************************************************************************)
(* Properties.  They are stated over the state after an action and the     *)
(* record prev of the state before it, the packet read by the action and   *)
(* the calls it made into the world.                                       *)
(***************************************************************************)
LocalEntity(S) == S.player_table[S.controllable_playerNo]

\* indices of the calls of operation op made for slot i by the last action
CallsOf(op, i) ==
    {k \in 1 .. Len(calls) : calls[k].op = op /\ calls[k].slot = i}

\* the last action ran client_update_status on the packet
StatusApplied == type = "G_STATUS" /\ prev.S.floor_change_flag = 0

PosApplied ==
    type = "G_ALLPOSUPDATE" /\ prev.S.floor_change_flag = 0 /\ pc # "crashed"

\* slot i is a slot of a remote player with an entity, reported off the floor
OffFloorRemote(i) ==
    /\ i # prev.S.controllable_playerNo
    /\ prev.S.player_table[i] # UNASSIGNED
    /\ ~packet.players_on_floor[i]

\* no later slot of the loop shows the entity of slot i again
NotShownLater(i) ==
    \A j \in Slots :
        (j > i /\ j # prev.S.controllable_playerNo
               /\ prev.S.player_table[j] = prev.S.player_table[i])
        => ~packet.players_on_floor[j]

\* C3 (as stated): a Positions update, applied to an assigned remote slot
\* not flagged on the floor, clears the render and collision bits of the
\* slot's entity, destroys nothing and leaves the table as it was.  Stated
\* for the local player having an entity, whatever the packet's floor.
C3_PosHidesOffFloor_AsStated ==
    (PosApplied /\ LocalEntity(prev.S) \in Entities) =>
      /\ player_table = prev.S.player_table
      /\ calls = <<>>
      /\ \A i \in Slots : (OffFloorRemote(i) /\ NotShownLater(i)) =>
           world.mask[player_table[i]] \cap {"RENDER_PLAYER", "COLLISION"} = {}

\* C3 (amended): when the packet's floor is the level of the local player's
\* entity, a Positions update clears the render and collision bits of the
\* entity of every assigned remote slot not flagged on the floor (unless a
\* later slot shows the same entity), destroys no entity (no call into the
\* world, no other bit of any mask changed) and leaves the Player Table as
\* it was.
C3_PosHidesOffFloor ==
    (/\ PosApplied
     /\ LocalEntity(prev.S) \in Entities
     /\ packet.floor = prev.S.world.position[LocalEntity(prev.S)].level) =>
      /\ player_table = prev.S.player_table
      /\ calls = <<>>
      /\ \A e \in Entities :
           world.mask[e] \cup {"RENDER_PLAYER", "COLLISION"} =
             prev.S.world.mask[e] \cup {"RENDER_PLAYER", "COLLISION"}
      /\ \A i \in Slots : (OffFloorRemote(i) /\ NotShownLater(i)) =>
           world.mask[player_table[i]] \cap {"RENDER_PLAYER", "COLLISION"} = {}

\* a visible remote player on the local floor is reported off the floor and
\* is hidden, its entity kept
C3_Witness ==
    /\ PosApplied
    /\ LocalEntity(prev.S) \in Entities
    /\ packet.floor = prev.S.world.position[LocalEntity(prev.S)].level
    /\ \E i \in Slots :
         /\ OffFloorRemote(i)
         /\ prev.S.player_table[i] # LocalEntity(prev.S)
         /\ {"RENDER_PLAYER", "COLLISION"} \subseteq prev.S.world.mask[prev.S.player_table[i]]
         /\ world.mask[player_table[i]] = {"MOVEMENT", "POSITION", "PLAYER"}

\* C4: No Positions update ever changes the local player's entity
\* (position, floor, movement, facing, component mask), in every state,
\* the state before any Connect packet included.
C4_PosNeverTouchesLocalPlayer ==
    type = "G_ALLPOSUPDATE" =>
      \A e \in Entities : "CONTROLLABLE" \in prev.S.world.mask[e] =>
        /\ world.position[e] = prev.S.world.position[e]
        /\ world.movement[e] = prev.S.world.movement[e]
        /\ world.mask[e] = prev.S.world.mask[e]

\* the last action ran client_update_objectives on the packet
ObjectivesApplied ==
    type \in {"P_OBJSTATUS", "P_OBJCTV_LOC"} /\ prev.S.floor_change_flag = 0

\* index of the first zero byte of the capture list, MAX_OBJECTIVES if none
FirstZero(cap) ==
    IF \E i \in ObjIdx : cap[i] = 0
    THEN CHOOSE i \in ObjIdx : cap[i] = 0 /\ \A j \in ObjIdx : j < i => cap[j] # 0
    ELSE MAX_OBJECTIVES

\* C5: With the first zero byte of an Objective-status packet at index k,
\* the cached state of every index below k is the packet's byte and the
\* cached state of every index from k on is what it was, whatever the
\* packet holds there.
C5_ObjectivesStopAtFirstZero ==
    ObjectivesApplied =>
      LET k == FirstZero(packet.objectives_captured)
      IN \A i \in ObjIdx :
           /\ objective_table[i].obj_state =
                IF i < k THEN packet.objectives_captured[i]
                ELSE prev.S.objective_table[i].obj_state
           /\ objective_table[i].entity_no = prev.S.objective_table[i].entity_no

\* a capture list with a zero in the middle: a byte before the zero is
\* copied, a non-zero byte after the zero is not
C5_Witness ==
    /\ ObjectivesApplied
    /\ LET k == FirstZero(packet.objectives_captured)
       IN /\ k \in ObjIdx
          /\ \E i \in ObjIdx :
               /\ i < k
               /\ prev.S.objective_table[i].obj_state # packet.objectives_captured[i]
               /\ objective_table[i].obj_state = packet.objectives_captured[i]
          /\ \E j \in ObjIdx :
               /\ j > k
               /\ packet.objectives_captured[j] # 0
               /\ objective_table[j].obj_state # packet.objectives_captured[j]

\* slice of the Objective Table of floor f
SliceOf(f) ==
    ((f - 1) * OBJECTIVES_PER_FLOOR) .. (f * OBJECTIVES_PER_FLOOR - 1)

\* C6: A Floor-move packet for floor F sets the local player's level to F
\* and re-seeds every entry of the slice of F: each index of the slice
\* refers to its own objective entity of the rebuilt floor, whose status is
\* the cached state of that index.
C6_FloorMoveSeedsSlice ==
    (/\ type = "P_FLOOR_MOVE"
     /\ pc # "crashed"
     /\ LocalEntity(prev.S) \in Entities) =>
      /\ world.position[LocalEntity(prev.S)].level = packet.new_floor
      /\ \A j \in SliceOf(packet.new_floor) :
           LET e == objective_table[j].entity_no
           IN /\ e \in Entities
              /\ "OBJECTIVE" \in world.mask[e]
              /\ world.objective[e] = objective_table[j].obj_state
              /\ \A j2 \in SliceOf(packet.new_floor) :
                   j2 # j => objective_table[j2].entity_no # e

\* C7: On NET_SHUTDOWN every entry of the Player Table and every entry of
\* the Objective Table is the unassigned sentinel, network_ready is 0 and
\* the call returns -2.
C7_ShutdownWipesTables ==
    (num_packets = NET_SHUTDOWN /\ type = "none" /\ prev.pc # "down") =>
      /\ \A s \in Slots : player_table[s] = UNASSIGNED
      /\ \A o \in ObjIdx : objective_table[o].entity_no = NO_ENTITY
      /\ network_ready = 0
      /\ ret = -2

DeniedRead == type = "P_CONNECT" /\ packet.connect_code = CONNECT_CODE_DENIED

\* C8 (as stated): a denied Connect packet in the batch makes the call
\* return -1 at that packet.
C8_DeniedStopsCall_AsStated ==
    DeniedRead => (pc = "returned" /\ ret = -1)

\* C8 (amended): a denied Connect packet read while floor_change_flag is 0
\* makes the call return -1 at that packet, nothing applied from it and the
\* packets after it left unread; read while floor_change_flag is 1 it is
\* discarded and the loop goes on; no other packet makes the call return.
C8_DeniedStopsCall ==
    /\ (DeniedRead /\ prev.S.floor_change_flag = 0) =>
         /\ pc = "returned"
         /\ ret = -1
         /\ i_pkt = prev.i_pkt
         /\ View(Cur) = View(prev.S)
    /\ (DeniedRead /\ prev.S.floor_change_flag = 1) =>
         /\ pc = "loop"
         /\ ret = prev.ret
         /\ i_pkt = prev.i_pkt + 1
         /\ View(Cur) = View(prev.S)
    /\ (type # "none" /\ ~DeniedRead) =>
         /\ pc \in {"loop", "crashed"}
         /\ ret = prev.ret
         /\ pc = "loop" => i_pkt = prev.i_pkt + 1

\* a denied Connect packet with another packet of the batch behind it
C8_Witness ==
    /\ DeniedRead
    /\ prev.S.floor_change_flag = 0
    /\ pc = "returned"
    /\ ret = -1
    /\ i_pkt + 1 < num_packets

\* C9: A packet of a type the dispatcher has no handler for changes
\* nothing: no table, no entity, no call into the world; the loop goes on
\* to the packets left and the value the call will return is not affected.
C9_UnknownTypeIsNoOp ==
    type \in {"P_UNDEF", "P_NAME"} =>
      /\ View(Cur) = View(prev.S)
      /\ calls = <<>>
      /\ ~fault
      /\ pc = "loop"
      /\ i_pkt = prev.i_pkt + 1
      /\ ret = prev.ret

\* an unhandled packet read with a remote player in the table and another
\* packet of the batch left
C9_Witness ==
    /\ type \in {"P_UNDEF", "P_NAME"}
    /\ prev.S.floor_change_flag = 0
    /\ \E i \in Slots : i # controllable_playerNo /\ player_table[i] \in Entities
    /\ pc = "loop"
    /\ i_pkt < num_packets

\* C10: An Objective-status packet with a terminal game status surfaces the
\* end of the game to the caller: what the call leaves and returns differs
\* from what it leaves and returns for the same packet with the game
\* running.
C10_EndOfGameSurfaced ==
    (pc = "loop" /\ i_pkt < num_packets /\ floor_change_flag = 0) =>
      \A p \in SentObjectivePackets :
        p.game_status \in {GAME_TEAM1_WIN, GAME_TEAM2_WIN} =>
          \A u \in UBFor(p.type) :
            dispatch(View(Cur), p.type, p, u) #
              dispatch(View(Cur), p.type, [p EXCEPT !.game_status = GAME_RUNNING], u)

(***************************************************************************)
(* Properties of the network threads.  router_pipe is what the receive     *)
(* thread handed to the pipe of the network router, net_ev the iteration   *)
(* last run and net_prev the state before it.                              *)
(***************************************************************************)
\* the iteration last run belongs to the receive thread and had data
ReceivedNow == net_ev.op \in {"recv", "echo"}

\* C11: a keep-alive read from the reliable channel is never written to the
\* pipe of the network router.
C11_KeepAliveNeverForwarded ==
    \A k \in 1 .. Len(router_pipe) :
        ~(router_pipe[k].src = "tcp" /\ router_pipe[k].type = P_KEEPALIVE)

\* the handlers of the iteration last run, if they ran
TcpRan == ReceivedNow /\ net_ev.out.tcp.ret # 1
UdpRan == ReceivedNow /\ net_ev.out.udp.ret # 1

ValidType(t) == t \in 1 .. NUM_PACKETS

\* C12: on both transports a packet type outside 1 .. NUM_PACKETS, zero
\* included, is reported as ERR_CORRUPTED (a NULL packet and cnt_errno =
\* ERR_CORRUPTED) and the size table is never indexed with it.  Stated for
\* reads during which err_sem is free.
C12_InvalidTypeIsCorrupted ==
    /\ (TcpRan /\ net_ev.tcp_in.hdr = "ok" /\ net_ev.tcp_in.sem
           /\ ~ValidType(net_ev.out.tcp.recv.type))
         => /\ net_ev.out.tcp.recv.null
            /\ net_ev.out.tcp.recv.cnt_errno = ERR_CORRUPTED
            /\ ~net_ev.out.tcp.recv.fault
    /\ (UdpRan /\ net_ev.udp_in.res = "ok" /\ ~ValidType(net_ev.out.udp.recv.type))
         => /\ net_ev.out.udp.recv.null
            /\ net_ev.out.udp.recv.cnt_errno = ERR_CORRUPTED
            /\ ~net_ev.out.udp.recv.fault

\* get_protocol has a case for the type: the result does not depend on what
\* its local holds
Assigned(t) ==
    get_protocol(t, [NoNetUB EXCEPT !.protocol = TCP])
        = get_protocol(t, [NoNetUB EXCEPT !.protocol = UDP])

\* the iteration last run received what the send thread emitted: the bytes,
\* the handler that read them, and whether they are all the bytes of the item
EmittedBytes == IF wire.tcp # <<>> THEN wire.tcp ELSE wire.udp
EchoHandler == IF wire.tcp # <<>> THEN net_ev.out.tcp ELSE net_ev.out.udp
EmittedWhole ==
    /\ net_ev.op = "echo"
    /\ ValidType(wire.type)
    /\ Len(EmittedBytes) = SIZEOF_TYPE + packet_sizes[wire.type - 1]
RoundTrips ==
    /\ ~EchoHandler.recv.null
    /\ EchoHandler.recv.type = wire.type
    /\ EchoHandler.recv.packet = wire.data

\* C13 as stated: for every type in 1 .. NUM_PACKETS and every payload of
\* its size, the bytes the send path emits are decoded by the receive path of
\* the same transport to the same type and payload.
C13_RoundTrip_AsStated == EmittedWhole => RoundTrips

\* C13: the round trip holds for every type get_protocol assigns a transport
\* to, the keep-alive excepted.
C13_RoundTrip ==
    (EmittedWhole /\ Assigned(wire.type) /\ wire.type # P_KEEPALIVE) => RoundTrips

C13_Witness ==
    /\ EmittedWhole
    /\ wire.type = P_CHAT
    /\ wire.data = <<1, 0>>
    /\ RoundTrips
    /\ net_ev.out.wrote # <<>>

\* the positions of router_pipe that hold what was read from the TCP socket
\* and was followed by a timestamp
TcpStamped == {k \in 1 .. Len(router_pipe) :
                 router_pipe[k].src = "tcp" /\ router_pipe[k].stamped}

\* C14: what is received on the reliable transport is forwarded in the order
\* received (an iteration appends what it read to the end of the pipe), and
\* the timestamps of successive forwarded reliable packets are strictly
\* increasing.
C14_ReliableOrderAndStamps ==
    /\ ReceivedNow => router_pipe = net_prev.router_pipe \o net_ev.out.wrote
    /\ \A i, j \in TcpStamped :
          i < j => router_pipe[i].timestamp < router_pipe[j].timestamp

\* C15: a unit of the reliable transport with an unrecognized type is
\* dropped: the worker goes back to polling, nothing is forwarded for the
\* unit and no sequence number is consumed.  Stated for reads during which
\* err_sem is free.
C15_CorruptUnitDropped ==
    (TcpRan /\ net_ev.tcp_in.hdr = "ok" /\ net_ev.tcp_in.sem
        /\ ~ValidType(net_ev.out.tcp.recv.type))
      => /\ recv_pc = "polling"
         /\ net_ev.out.tcp.wrote = <<>>
         /\ router_pipe = net_prev.router_pipe
         /\ tcp_seq_num = net_prev.tcp_seq_num

\* the errors of the transport in the iteration last run: check_sockets
\* failed, the read of the type failed or found the connection closed, the
\* read of the payload failed, the receive of a datagram failed
PollFailed == net_ev.op = "poll_fail"
HeaderReadFailed == TcpRan /\ net_ev.tcp_in.hdr \in {"fail", "closed"}
PayloadReadFailed ==
    /\ TcpRan /\ net_ev.tcp_in.hdr = "ok" /\ net_ev.tcp_in.payload = "fail"
    /\ ~net_ev.out.tcp.recv.null
DatagramFailed == UdpRan /\ net_ev.udp_in.res = "fail"

\* C16: each error of the transport makes the receive thread leave its
\* loop, and a thread that left its loop forwards nothing more.
C16_TransportErrorStops ==
    /\ (PollFailed \/ HeaderReadFailed \/ PayloadReadFailed \/ DatagramFailed)
          => recv_pc = "stopped"
    /\ net_prev.recv_pc = "stopped"
          => recv_pc = "stopped" /\ router_pipe = net_prev.router_pipe

\* the iteration last run made the receive thread leave its loop
StoppedNow == net_prev.recv_pc = "polling" /\ recv_pc = "stopped"

\* what the iteration last run appended to the pipe of the network router
\* that did not come from a socket
AppendedEvents(kind) ==
    {k \in (Len(net_prev.router_pipe) + 1) .. Len(router_pipe) :
        router_pipe[k].src = kind}

\* C17: when the receive thread stops on a closed connection or an I/O
\* error, it writes an error event to the pipe of the network router before
\* it terminates.
C17_StopWritesErrorEvent == StoppedNow => AppendedEvents("error") # {}

\* C18: every timeout of the poll writes a liveness-check event to the pipe
\* of the network router, and the thread polls again.
C18_TimeoutWritesLivenessEvent ==
    net_ev.op = "poll_timeout"
      => /\ AppendedEvents("liveness") # {}
         /\ recv_pc = "polling"

\* the iteration last run belongs to the send thread and its item has a
\* type get_protocol has a case for
SentAssigned == net_ev.op = "send" /\ Assigned(net_ev.item.type)

SendFailed ==
    /\ net_ev.op = "send"
    /\ \E k \in 1 .. Len(net_ev.sent.calls) :
          net_ev.sent.calls[k].result < 0 /\ net_ev.sent.calls[k].ret = -1

\* C20: a failed send does not stop the send thread, and the failure is made
\* known to the network router or the caller: cnt_errno is set or something
\* is written to the pipe of the network router.
C20_SendFailureReported ==
    SendFailed
      => /\ send_pc = "running"
         /\ \/ cnt_errno # net_prev.cnt_errno
            \/ Len(router_pipe) > Len(net_prev.router_pipe)

\* the protocol the send thread used in the iteration last run: the socket
\* of its calls, 0 if it made none
ProtocolUsed ==
    IF net_ev.sent.calls = <<>> THEN 0 ELSE net_ev.sent.calls[1].sock

\* C21: for every type in 1 .. NUM_PACKETS get_protocol returns TCP or UDP,
\* and which of them depends on the type alone.
C21_ProtocolTotal ==
    (net_ev.op = "send" /\ ValidType(net_ev.item.type) /\ ~net_ev.sent.crashed)
      => /\ ProtocolUsed \in {TCP, UDP}
         /\ \A u \in NetUBChoices : get_protocol(net_ev.item.type, u) = ProtocolUsed

\* a thread has left its loop: the receive thread broke out of it, or the
\* process died
LeftLoops == recv_pc # "polling" /\ send_pc # "running"

\* C22: once the sockets are being shut down both threads eventually leave
\* their loops, and no thread uses a socket after it was closed.
C22_ThreadsStopBeforeRelease ==
    /\ (sockets = "closed") ~> LeftLoops
    /\ [](handle_use # "closed")

\* C23: a call of client_update_system that is waiting for the router after
\* the receive thread has stopped eventually returns with the network no
\* longer reported as ready.
C23_StoppedWorkerReported ==
    (recv_pc = "stopped" /\ pc = "reading")
       ~> (pc \in {"returned", "down"} /\ network_ready = 0)

\* a step that writes the player table, the objective table or the world
TablesWritten ==
    \/ player_table' # player_table
    \/ objective_table' # objective_table
    \/ world' # world

\* a step inside client_update_system: the loop over the packets read, or
\* the shutdown branch
InUpdateSystem == pc = "loop" \/ (AtCall /\ pc' = "down")

\* an iteration of the receive or the send thread
WorkerStep == n_net' # n_net

\* C24: in every interleaving of the three threads the player table, the
\* objective table and the world are written only by the gameplay thread
\* inside client_update_system, and an iteration of a network thread leaves
\* them as they are.
C24_SingleWriter ==
    [][/\ TablesWritten => InUpdateSystem /\ ~WorkerStep
       /\ WorkerStep => UNCHANGED <<player_table, objective_table, world>>]_vars

\* the gameplay thread wrote the player table after a network thread ran
C24_Witness ==
    /\ n_net > 0
    /\ net_ev.op \in {"recv", "send"}
    /\ prev.pc = "loop"
    /\ player_table # prev.S.player_table

\* slot i is flagged valid by the Status packet applied last and its entry
\* referred to an entity before
ValidAssigned(i) ==
    /\ StatusApplied
    /\ packet.player_valid[i]
    /\ prev.S.player_table[i] \in Entities

\* no other entry of the player table referred to the entity of slot i
OwnEntity(i) ==
    \A j \in Slots \ {i} : prev.S.player_table[j] # prev.S.player_table[i]

\* the animation client_update_status installs for slot i
StatusAnimation(i) ==
    IF packet.otherPlayers_teams[i] = COPS THEN "cop"
    ELSE IF packet.characters[i] \in KnownCharacters THEN packet.characters[i]
    ELSE "p0_rob"

\* C25 as stated: for a slot flagged valid whose entry is assigned the entry
\* keeps its entity, no entity is created or destroyed for the slot, the
\* animation is not installed again and nothing of the entity but its team
\* and ready state changes.
C25_StatusChangesTeamAndReady_AsStated ==
    \A i \in Slots : (ValidAssigned(i) /\ OwnEntity(i)) =>
      LET e == prev.S.player_table[i]
      IN /\ player_table[i] = e
         /\ CallsOf("create_player", i) = {}
         /\ CallsOf("destroy_entity", i) = {}
         /\ CallsOf("load_animation", i) = {}
         /\ world.animation[e] = prev.S.world.animation[e]
         /\ world.collision[e] = prev.S.world.collision[e]
         /\ world.player[e].playerNo = prev.S.world.player[e].playerNo

\* C25 (amended): for a slot flagged valid whose entry is assigned the entry
\* keeps its entity and no entity is created or destroyed for the slot; the
\* entity gets the slot as player number, the team and ready state of the
\* packet, the collision type of the team (guard for cops, hacker otherwise)
\* and, installed once more, the animation of the team or character; its
\* mask, position and movement stay as they were.
C25_StatusChangesTeamAndReady ==
    \A i \in Slots : ValidAssigned(i) =>
      LET e == prev.S.player_table[i]
      IN /\ player_table[i] = e
         /\ CallsOf("create_player", i) = {}
         /\ CallsOf("destroy_entity", i) = {}
         /\ Cardinality(CallsOf("load_animation", i)) = 1
         /\ \A k \in CallsOf("load_animation", i) : calls[k].entity = e
         /\ OwnEntity(i) =>
              /\ world.player[e] =
                   [playerNo |-> i, teamNo |-> packet.otherPlayers_teams[i],
                    readyStatus |-> packet.readystatus[i]]
              /\ world.collision[e] =
                   IF packet.otherPlayers_teams[i] = COPS THEN COLLISION_GUARD
                   ELSE COLLISION_HACKER
              /\ world.animation[e] = StatusAnimation(i)
              /\ world.mask[e] = prev.S.world.mask[e]
              /\ world.position[e] = prev.S.world.position[e]
              /\ world.movement[e] = prev.S.world.movement[e]

\* a live remote player of the robbers is reported as a cop: collision type
\* and animation follow the team
C25_Witness ==
    \E i \in Slots :
      /\ ValidAssigned(i)
      /\ OwnEntity(i)
      /\ Alive(prev.S.world, prev.S.player_table[i])
      /\ prev.S.world.player[prev.S.player_table[i]].teamNo = ROBBERS
      /\ prev.S.world.animation[prev.S.player_table[i]] = "AMAN"
      /\ packet.otherPlayers_teams[i] = COPS
      /\ world.collision[player_table[i]] = COLLISION_GUARD
      /\ world.animation[player_table[i]] = "cop"

\* the last action ran the loop of client_update_pos: the packet is for the
\* floor of the entity the entry of the local player refers to
PosLoopRan ==
    /\ PosApplied
    /\ LocalEntity(prev.S) \in Entities
    /\ packet.floor = prev.S.world.position[LocalEntity(prev.S)].level

\* slot i is a remote slot with an entity that the packet reports on the floor
PosUpdated(i) ==
    /\ PosLoopRan
    /\ i # prev.S.controllable_playerNo
    /\ prev.S.player_table[i] \in Entities
    /\ packet.players_on_floor[i]

\* C26: for each remote slot a Position-update packet updates, a non-zero
\* vertical velocity gives DOWN (negative) or UP (positive) whatever the
\* horizontal velocity; with a zero vertical velocity a non-zero horizontal
\* one gives LEFT (negative) or RIGHT (positive); with both zero the facing
\* direction stays what it was.
C26_FacingFromVelocity ==
    \A i \in Slots : PosUpdated(i) =>
      LET e == prev.S.player_table[i]
          xv == packet.xVel[i]
          yv == packet.yVel[i]
      IN world.movement[e].lastDirection =
           IF yv < 0 THEN DIRECTION_DOWN
           ELSE IF yv > 0 THEN DIRECTION_UP
           ELSE IF xv < 0 THEN DIRECTION_LEFT
           ELSE IF xv > 0 THEN DIRECTION_RIGHT
           ELSE prev.S.world.movement[e].lastDirection

\* a remote player facing left moves right and down: it faces down
C26_Witness ==
    \E i \in Slots :
      /\ PosUpdated(i)
      /\ prev.S.world.movement[prev.S.player_table[i]].lastDirection = DIRECTION_LEFT
      /\ packet.xVel[i] > 0
      /\ packet.yVel[i] < 0
      /\ world.movement[player_table[i]].lastDirection = DIRECTION_DOWN

\* the last action ran client_update_info on a Connect packet that was
\* accepted
ConnectApplied ==
    /\ type = "P_CONNECT"
    /\ prev.S.floor_change_flag = 0
    /\ packet.connect_code = CONNECT_CODE_ACCEPTED

\* the entities the local player controls
Controllable(w) ==
    {e \in Entities :
       {"MOVEMENT", "POSITION", "PLAYER", "CONTROLLABLE"} \subseteq w.mask[e]}

\* C27: an accepted Connect packet with player number n and team t makes
\* slot n of the player table refer to the controllable entity, records n as
\* the slot of the local player and gives the entity player number n and
\* team t; every other slot of the player table stays as it was.
C27_ConnectRecordsLocalSlot ==
    ConnectApplied =>
      LET n == packet.clients_player_number
      IN /\ controllable_playerNo = n
         /\ player_table[n] \in Controllable(world)
         /\ world.player[player_table[n]].playerNo = n
         /\ world.player[player_table[n]].teamNo = packet.clients_team_number
         /\ \A j \in Slots \ {n} : player_table[j] = prev.S.player_table[j]

\* the state client_update_pos leaves when packet B is applied to the
\* current state
PosAgain(B) == client_update_pos(View(Cur), B, NoUB).S

\* packets for the floor the local player is on now
LocalFloorPackets ==
    {B \in AllPosPackets : B.floor = world.position[LocalEntity(Cur)].level}

\* slot i is a remote slot with an entity, on the floor in the packet
\* applied last and in packet B
OnFloorInBoth(i, B) ==
    /\ i # controllable_playerNo
    /\ player_table[i] \in Entities
    /\ packet.players_on_floor[i]
    /\ B.players_on_floor[i]

SlotEntities(i) ==
    {e \in Entities : /\ Alive(world, e)
                      /\ "PLAYER" \in world.mask[e]
                      /\ world.player[e].playerNo = i
                      /\ \/ "CONTROLLABLE" \notin world.mask[e]
                         \/ \E j \in Slots : player_table[j] = e}

\* C29: after any sequence of Connect, Status, Position-update, Floor-move
\* and shutdown events every slot has at most one live entity, which is the
\* one its entry refers to, and no two slots refer to the same entity.
C29_OneLiveEntityPerSlot ==
    /\ \A i \in Slots : SlotEntities(i) \subseteq {player_table[i]}
    /\ \A i, j \in Slots :
         (i # j /\ player_table[i] \in Entities) => player_table[i] # player_table[j]

\* C30: after an Objective-status packet is applied, for every index of the
\* slice of the floor the local player's entity is on, the status of the
\* objective entity the entry refers to is the cached state of the entry,
\* and the objective entities stay as they were where no entry of that
\* slice refers to them.
C30_ObjectivesReflectLocalSlice ==
    (/\ ObjectivesApplied
     /\ pc # "crashed"
     /\ LocalEntity(prev.S) \in Entities
     /\ prev.S.world.position[LocalEntity(prev.S)].level \in Floors) =>
      LET slice == SliceOf(prev.S.world.position[LocalEntity(prev.S)].level)
      IN /\ \A i \in slice :
              objective_table[i].entity_no \in Entities =>
                world.objective[objective_table[i].entity_no] =
                  objective_table[i].obj_state
         /\ \A e \in Entities :
              (\A i \in slice : objective_table[i].entity_no # e) =>
                world.objective[e] = prev.S.world.objective[e]

\* C31: whatever a Status packet says about the slot of the local player,
\* client_update_status leaves the entry of that slot as it was and neither
\* creates, changes nor destroys the local player's entity.
C31_StatusIgnoresLocalSlot ==
    (StatusApplied /\ LocalEntity(prev.S) \in Entities) =>
      LET n == prev.S.controllable_playerNo
          e == LocalEntity(prev.S)
      IN /\ player_table[n] = e
         /\ CallsOf("create_player", n) = {}
         /\ CallsOf("destroy_entity", n) = {}
         /\ CallsOf("load_animation", n) = {}
         /\ world.mask[e] = prev.S.world.mask[e]
         /\ world.player[e] = prev.S.world.player[e]
         /\ world.collision[e] = prev.S.world.collision[e]
         /\ world.animation[e] = prev.S.world.animation[e]

\* C32: cnt_errno is written only by a thread that holds err_sem: an
\* iteration of the receive thread that runs while a thread inside
\* get_error_string holds the semaphore leaves cnt_errno as it was, and a
\* thread that holds the semaphore gives it back.
C32_ErrnoWrittenUnderSemaphore ==
    (net_ev.op = "recv" /\ err_sem = "reader") => cnt_errno = net_prev.cnt_errno

\* C33: while network_ready is 0 a call of client_update_system returns -3;
\* it does not signal the router, reads nothing from the pipe and leaves
\* the player table, the objective table, the world and floor_change_flag
\* as they are.  (The only other step taken while network_ready is 0 is the
\* network coming up.)
C33_NotReadyReturnsUntouched ==
    [][(network_ready = 0 /\ network_ready' = 0) =>
         /\ ret' = -3
         /\ type' = "none"
         /\ calls' = <<>>
         /\ UNCHANGED <<player_table, objective_table, world, floor_change_flag,
                        controllable_playerNo, player_team, chat_log,
                        num_packets, n_read, game_signal, net_pipe>>]_vars

\* a call made after a shutdown, while a floor change was being waited for
\* and a remote player's entity is still in the world
C33_Witness ==
    /\ network_ready = 0
    /\ pc = "down"
    /\ ret = -3
    /\ floor_change_flag = 1
    /\ \E e \in Entities : Alive(world, e) /\ "CONTROLLABLE" \notin world.mask[e]

\* the last action read a packet while a Floor-move packet was waited for
ReadWhileWaiting == type # "none" /\ prev.S.floor_change_flag = 1

\* C34: while floor_change_flag is 1 a packet of any type but Floor-move is
\* read and discarded: tables, world and flag stay as they are, nothing is
\* called, the value the call will return is not affected and the loop goes
\* on; a Floor-move packet is applied and sets the flag to 0, and nothing
\* else takes the flag from 1 to 0.
C34_OnlyFloorMoveWhileWaiting ==
    /\ [](ReadWhileWaiting =>
            IF type = "P_FLOOR_MOVE"
            THEN pc # "crashed" =>
                   /\ floor_change_flag = 0
                   /\ \E k \in 1 .. Len(calls) : calls[k].op = "rebuild_floor"
            ELSE /\ View(Cur) = View(prev.S)
                 /\ calls = <<>>
                 /\ ret = prev.ret
                 /\ pc = "loop"
                 /\ i_pkt = prev.i_pkt + 1)
    /\ [][(floor_change_flag = 1 /\ floor_change_flag' = 0)
             => type' = "P_FLOOR_MOVE"]_vars

\* a Status packet that would create a player is discarded while the
\* Floor-move packet is waited for
C34_Witness ==
    /\ ReadWhileWaiting
    /\ type = "G_STATUS"
    /\ \E i \in Slots : packet.player_valid[i] /\ prev.S.player_table[i] = UNASSIGNED
    /\ player_table = prev.S.player_table
    /\ floor_change_flag = 1

\* C35: a call of client_update_system that read a packet count has read
\* every packet of the batch when it returns, whichever return it takes, so
\* that the next call starts at the count of the next batch.
C35_BatchConsumedOnReturn ==
    (pc = "returned" /\ ret \in {0, -1}) =>
      i_pkt + (IF ret = -1 THEN 1 ELSE 0) = num_packets

\* the last action ran client_update_pos on a packet for another floor
\* than the one of the entity the entry of the local player refers to
PosOtherFloor ==
    /\ PosApplied
    /\ LocalEntity(prev.S) \in Entities
    /\ packet.floor # prev.S.world.position[LocalEntity(prev.S)].level

\* C36: a Position-update packet whose floor is not the level of the local
\* player changes nothing: no mask, movement, facing, position or floor of
\* any entity, no entry of the player table, and nothing is called.
C36_OtherFloorChangesNothing ==
    PosOtherFloor =>
      /\ world = prev.S.world
      /\ player_table = prev.S.player_table
      /\ View(Cur) = View(prev.S)
      /\ calls = <<>>

\* a packet for another floor reports a remote player on the floor with a
\* velocity the player does not have
C36_Witness ==
    /\ PosOtherFloor
    /\ \E i \in Slots :
         /\ i # prev.S.controllable_playerNo
         /\ prev.S.player_table[i] \in Entities
         /\ Alive(prev.S.world, prev.S.player_table[i])
         /\ packet.players_on_floor[i]
         /\ packet.xVel[i] # prev.S.world.movement[prev.S.player_table[i]].movX
         /\ world.movement[player_table[i]] =
              prev.S.world.movement[prev.S.player_table[i]]

\* C37: client_update_pos, client_update_floor and client_update_objectives
\* index the world arrays only with assigned, in-range entity identifiers:
\* none of them reads or writes the world through an entry of the player
\* table or of the objective table that is no entity.
C37_NoSentinelIndex ==
    type \in {"G_ALLPOSUPDATE", "P_FLOOR_MOVE", "P_OBJSTATUS", "P_OBJCTV_LOC"}
      => ~fault

\* C38: every record that handle_tcp_in or handle_udp_in wrote to the pipe
\* of the network router comes from a receive that returned a packet: the
\* packet is not NULL, its type is in 1 .. NUM_PACKETS, and the timestamp
\* written after it was set by that receive.
C38_ForwardedWasDecoded ==
    \A k \in 1 .. Len(router_pipe) :
        router_pipe[k].src \in {"tcp", "udp"}
          => /\ ~router_pipe[k].null
             /\ ValidType(router_pipe[k].type)
             /\ router_pipe[k].stamped
             /\ router_pipe[k].decoded

\* C39: for a record of the outbound pipe whose type is outside
\* 1 .. NUM_PACKETS the send thread sends nothing and does not index the
\* size table with the type.
C39_SendOnlyWellFormed ==
    (net_ev.op = "send" /\ ~ValidType(net_ev.item.type))
      => /\ net_ev.sent.calls = <<>>
         /\ ~net_ev.sent.fault
         /\ ~net_ev.sent.crashed

\* C40: on NET_SHUTDOWN the error text is read and terminated inside
\* err_buf: the bytes read and the terminator written at index str_size are
\* all within the ERR_BUF_SIZE bytes of the buffer.
C40_ErrorTextInsideBuffer ==
    /\ err_buf.read <= ERR_BUF_SIZE
    /\ err_buf.terminator < ERR_BUF_SIZE
    /\ ~err_buf.fault

=============================================================================
